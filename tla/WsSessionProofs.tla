--------------------------- MODULE WsSessionProofs ---------------------------
(***************************************************************************)
(* Proofs about module WsSession, for any proofs, any limits and channels  *)
(* of any capacity.                                                        *)
(***************************************************************************)
EXTENDS WsSession, FiniteSetTheorems, TLAPS

-----------------------------------------------------------------------------
(* What a channel says of a proof *)

Answer(m, p) == m.type \in {"subscribed", "unsubscribed"} /\ m.proof = p
Event(m, p) == m.type \in Streams /\ m.proof = p

(* The i-th message of c is the last answer about p, and no event about p  *)
(* comes after it.                                                         *)
LastAnswer(c, i, p) ==
  i \in DOMAIN c /\ Answer(c[i], p) /\ \A j \in DOMAIN c : j > i => ~Answer(c[j], p)
QuietFrom(c, i, p) == \A j \in DOMAIN c : j > i => ~Event(c[j], p)

(* A message is put in at the end.                                         *)
LEMMA AppendFacts ==
  ASSUME NEW S, NEW c \in Seq(S), NEW m \in S
  PROVE  /\ Append(c, m) \in Seq(S) /\ Len(c) \in Nat
         /\ DOMAIN c = 1..Len(c) /\ DOMAIN Append(c, m) = 1..(Len(c) + 1)
         /\ Append(c, m)[Len(c) + 1] = m
         /\ \A i \in DOMAIN c : i \in DOMAIN Append(c, m) /\ Append(c, m)[i] = c[i]
         /\ \A i \in DOMAIN Append(c, m) : i \in DOMAIN c \/ i = Len(c) + 1
         /\ ToSet(Append(c, m)) = ToSet(c) \cup {m}
<1> DEFINE a == Append(c, m)
<1>1. /\ a \in Seq(S) /\ Len(c) \in Nat /\ DOMAIN c = 1..Len(c) /\ DOMAIN a = 1..(Len(c) + 1)
      /\ a[Len(c) + 1] = m /\ \A i \in 1..Len(c) : a[i] = c[i]
  OBVIOUS
<1> HIDE DEF a
<1>2. \A i \in DOMAIN c : i \in DOMAIN a /\ a[i] = c[i]
  BY <1>1
<1>3. \A i \in DOMAIN a : i \in DOMAIN c \/ i = Len(c) + 1
  BY <1>1
<1>4. Len(c) + 1 \in DOMAIN a
  BY <1>1
<1>5. /\ \A x : x \in ToSet(a) <=> \E i \in DOMAIN a : a[i] = x
      /\ \A x : x \in ToSet(c) <=> \E i \in DOMAIN c : c[i] = x
  BY DEF ToSet
<1>6. \A x : x \in ToSet(a) <=> x \in ToSet(c) \/ x = m
  BY <1>1, <1>2, <1>3, <1>4, <1>5
<1>7. ToSet(a) = ToSet(c) \cup {m}
  BY <1>6
<1> QED
  BY <1>1, <1>2, <1>3, <1>7 DEF a

(* The first message is taken out.                                         *)
LEMMA TailFacts ==
  ASSUME NEW S, NEW c \in Seq(S), c # <<>>
  PROVE  /\ Head(c) = c[1] /\ 1 \in DOMAIN c /\ c[1] \in S /\ Tail(c) \in Seq(S)
         /\ DOMAIN c \subseteq Nat /\ DOMAIN Tail(c) \subseteq Nat
         /\ \A i \in DOMAIN Tail(c) : i + 1 \in DOMAIN c /\ Tail(c)[i] = c[i + 1]
         /\ \A i \in DOMAIN c : i = 1 \/ (i > 1 /\ i - 1 \in DOMAIN Tail(c))
         /\ ToSet(c) = {Head(c)} \cup ToSet(Tail(c))
<1> DEFINE t == Tail(c)
<1>1. /\ Len(c) \in Nat /\ Len(c) > 0 /\ DOMAIN c = 1..Len(c) /\ Head(c) = c[1] /\ c[1] \in S
      /\ t \in Seq(S) /\ DOMAIN t = 1..(Len(c) - 1)
      /\ \A i \in 1..(Len(c) - 1) : t[i] = c[i + 1]
  OBVIOUS
<1> HIDE DEF t
<1>2. \A i \in DOMAIN t : i + 1 \in DOMAIN c /\ t[i] = c[i + 1]
  BY <1>1
<1>3. \A i \in DOMAIN c : i = 1 \/ (i > 1 /\ i - 1 \in DOMAIN t)
  BY <1>1
<1>4. /\ \A x : x \in ToSet(t) <=> \E i \in DOMAIN t : t[i] = x
      /\ \A x : x \in ToSet(c) <=> \E i \in DOMAIN c : c[i] = x
  BY DEF ToSet
<1>5. ASSUME NEW x PROVE x \in ToSet(c) <=> x = c[1] \/ x \in ToSet(t)
  <2>1. ASSUME x \in ToSet(c) PROVE x = c[1] \/ x \in ToSet(t)
    <3>1. PICK i \in DOMAIN c : c[i] = x
      BY <1>4, <2>1
    <3>2. CASE i # 1
      <4>1. i - 1 \in DOMAIN t /\ t[i - 1] = x
        BY <1>1, <1>3, <3>1, <3>2
      <4> QED
        BY <1>4, <4>1
    <3> QED
      BY <3>1, <3>2
  <2>2. ASSUME x \in ToSet(t) PROVE x \in ToSet(c)
    BY <1>2, <1>4, <2>2
  <2>3. c[1] \in ToSet(c)
    BY <1>1, <1>4
  <2> QED
    BY <2>1, <2>2, <2>3
<1>6. 1 \in DOMAIN c /\ DOMAIN c \subseteq Nat /\ DOMAIN t \subseteq Nat
  BY <1>1
<1>7. ToSet(c) = {Head(c)} \cup ToSet(t)
  BY <1>1, <1>5
<1> QED
  BY <1>1, <1>2, <1>3, <1>6, <1>7 DEF t

(* The last answer and the quiet after it, when a message is put in        *)
LEMMA AppendAnswers ==
  ASSUME NEW S, NEW c \in Seq(S), NEW m \in S, NEW p, NEW i
  PROVE  /\ LastAnswer(Append(c, m), i, p) =>
              \/ Append(c, m)[i] = m /\ Answer(m, p) /\ QuietFrom(Append(c, m), i, p)
              \/ LastAnswer(c, i, p) /\ ~Answer(m, p) /\ Append(c, m)[i] = c[i]
         /\ QuietFrom(c, i, p) /\ ~Event(m, p) => QuietFrom(Append(c, m), i, p)
<1> DEFINE a == Append(c, m)
<1>1. /\ a \in Seq(S) /\ Len(c) \in Nat
      /\ DOMAIN c = 1..Len(c) /\ DOMAIN a = 1..(Len(c) + 1) /\ a[Len(c) + 1] = m
      /\ \A j \in DOMAIN c : j \in DOMAIN a /\ a[j] = c[j]
      /\ \A j \in DOMAIN a : j \in DOMAIN c \/ j = Len(c) + 1
  BY AppendFacts
<1> HIDE DEF a
<1>2. ASSUME LastAnswer(a, i, p)
      PROVE  \/ a[i] = m /\ Answer(m, p) /\ QuietFrom(a, i, p)
             \/ LastAnswer(c, i, p) /\ ~Answer(m, p) /\ a[i] = c[i]
  <2>1. CASE i = Len(c) + 1
    <3>1. \A j \in DOMAIN a : ~(j > i)
      BY <1>1, <2>1
    <3> QED
      BY <1>1, <1>2, <2>1, <3>1 DEF LastAnswer, QuietFrom
  <2>2. CASE i \in DOMAIN c
    <3>1. Len(c) + 1 \in DOMAIN a /\ Len(c) + 1 > i
      BY <1>1, <2>2
    <3> QED
      BY <1>1, <1>2, <2>2, <3>1 DEF LastAnswer
  <2> QED
    BY <1>1, <1>2, <2>1, <2>2 DEF LastAnswer
<1>3. QuietFrom(c, i, p) /\ ~Event(m, p) => QuietFrom(a, i, p)
  BY <1>1 DEF QuietFrom
<1> QED
  BY <1>2, <1>3 DEF a

(* The same, when the first message is taken out                           *)
LEMMA TailAnswers ==
  ASSUME NEW S, NEW c \in Seq(S), c # <<>>, NEW p, NEW i
  PROVE  /\ LastAnswer(Tail(c), i, p) => LastAnswer(c, i + 1, p) /\ Tail(c)[i] = c[i + 1] /\ i \in Nat
         /\ i \in Nat /\ QuietFrom(c, i + 1, p) => QuietFrom(Tail(c), i, p)
<1> DEFINE t == Tail(c)
<1>1. /\ DOMAIN c \subseteq Nat /\ DOMAIN t \subseteq Nat
      /\ \A j \in DOMAIN t : j + 1 \in DOMAIN c /\ t[j] = c[j + 1]
      /\ \A j \in DOMAIN c : j = 1 \/ (j > 1 /\ j - 1 \in DOMAIN t)
  BY TailFacts
<1> HIDE DEF t
<1>2. ASSUME LastAnswer(t, i, p) PROVE LastAnswer(c, i + 1, p) /\ t[i] = c[i + 1] /\ i \in Nat
  <2>1. i \in DOMAIN t /\ i \in Nat /\ i + 1 \in DOMAIN c /\ t[i] = c[i + 1] /\ Answer(c[i + 1], p)
    BY <1>1, <1>2 DEF LastAnswer
  <2>2. ASSUME NEW j \in DOMAIN c, j > i + 1 PROVE ~Answer(c[j], p)
    <3>1. j \in Nat /\ j - 1 \in DOMAIN t /\ j - 1 > i /\ t[j - 1] = c[(j - 1) + 1] /\ (j - 1) + 1 = j
      BY <1>1, <2>1, <2>2
    <3> QED
      BY <1>2, <3>1 DEF LastAnswer
  <2> QED
    BY <2>1, <2>2 DEF LastAnswer
<1>3. ASSUME i \in Nat, QuietFrom(c, i + 1, p) PROVE QuietFrom(t, i, p)
  <2>1. ASSUME NEW j \in DOMAIN t, j > i PROVE ~Event(t[j], p)
    <3>1. j \in Nat /\ j + 1 \in DOMAIN c /\ j + 1 > i + 1 /\ t[j] = c[j + 1]
      BY <1>1, <1>3, <2>1
    <3> QED
      BY <1>3, <3>1 DEF QuietFrom
  <2> QED
    BY <2>1 DEF QuietFrom
<1> QED
  BY <1>2, <1>3 DEF t

-----------------------------------------------------------------------------
(* The inductive invariant *)

Ids == Proofs \cup {"none"}
Answers == {"subscribed", "unsubscribed"}
Replies == [type : Answers \cup {"error", "pong"}, proof : Ids]
Messages == Replies \cup [type : Streams, proof : Ids]
Typed ==
  /\ inbox \in Seq(ClientMessages) /\ channel \in Seq(Messages)
  /\ events \in [Streams -> Seq(Proofs)]
  /\ forward \in [Streams -> [at : {"recv", "check", "send", "done"}, proof : Ids]]
  /\ main \in [at : {"wait", "insert", "remove", "reply", "last", "cleanup", "cancel", "done"},
               proof : Ids, reply : Replies]
  /\ registered \subseteq Proofs /\ IsFiniteSet(registered) /\ count \in Nat

(* The loop holds the answer to the message it is dealing with.            *)
ReplyShape ==
  /\ main.at = "insert" => main.reply = Msg("subscribed", main.proof)
  /\ main.at = "remove" => main.reply = Msg("unsubscribed", main.proof)
  /\ main.at = "reply" /\ main.reply.type \in Answers => main.reply.proof = main.proof
  /\ main.at = "last" => main.reply = Error

(* The two sets differ by what the message at hand still has to change.    *)
Books ==
  /\ main.at \in {"wait", "reply"} => registered = localSubs
  /\ main.at = "insert" => registered = localSubs \cup {main.proof}
  /\ main.at = "remove" => registered = localSubs \ {main.proof}
  /\ Cardinality(registered) <= count

(* A task stops only when the connection is over.                          *)
Ends ==
  /\ cancelled => main.at = "done"
  /\ ~sending => channel = <<>> /\ (cancelled \/ hungUp)
  /\ \A e \in Streams : forward[e].at = "done" => cancelled \/ ~sending

Replying(type, p) == main.at = "reply" /\ main.reply = Msg(type, p)
InFlight(p) == \E e \in Streams : forward[e].at = "send" /\ forward[e].proof = p

(* The last answer in the channel, or the one the loop holds, says what    *)
(* the session's set is; once it is "unsubscribed" no event comes after.   *)
ToldSubscribed(p) ==
  /\ \A i \in DOMAIN channel : LastAnswer(channel, i, p) /\ channel[i].type = "subscribed" =>
       p \in localSubs \/ Replying("unsubscribed", p)
  /\ Replying("subscribed", p) => p \in localSubs
ToldUnsubscribed(p) ==
  /\ \A i \in DOMAIN channel : LastAnswer(channel, i, p) /\ channel[i].type = "unsubscribed" =>
       \/ Replying("subscribed", p)
       \/ p \notin localSubs /\ ~InFlight(p) /\ QuietFrom(channel, i, p)
  /\ Replying("unsubscribed", p) => p \notin localSubs /\ ~InFlight(p)

(* What the client knows is still so, and nothing under way changes it.    *)
KnowsSubscribed(p) ==
  /\ p \in localSubs /\ Msg("unsubscribe", p) \notin ToSet(inbox)
  /\ ~(main.at = "remove" /\ main.proof = p)
KnowsUnsubscribed(p) ==
  /\ p \notin localSubs /\ Msg("subscribe", p) \notin ToSet(inbox)
  /\ ~(main.at = "insert" /\ main.proof = p)
  /\ ~InFlight(p) /\ \A e \in Streams : Msg(e, p) \notin ToSet(channel)

(* Where an owed confirmation is                                           *)
Located(p) ==
  \/ Ended
  \/ p \in got \cup missed \cup ToSet(events["confirmed"])
  \/ Msg("confirmed", p) \in ToSet(channel)
  \/ forward["confirmed"].at \in {"check", "send"} /\ forward["confirmed"].proof = p

Told(p) == ToldSubscribed(p) /\ ToldUnsubscribed(p)
Position == ReplyShape /\ Books /\ Ends

IInv ==
  /\ Typed /\ Position
  /\ \A p \in Ids : Told(p)
  /\ \A p \in listening : KnowsSubscribed(p)
  /\ \A p \in quiet : KnowsUnsubscribed(p)
  /\ owed \subseteq listening /\ \A p \in owed : Located(p)

-----------------------------------------------------------------------------
(* Types *)

(* What the client sends                                                   *)
LEMMA ClientMessageFacts ==
  ASSUME NEW m \in ClientMessages
  PROVE  /\ m.type \in {"subscribe", "unsubscribe", "ping"} /\ m.proof \in Ids
         /\ m.type \in {"subscribe", "unsubscribe"} => m.proof \in Proofs /\ m = Msg(m.type, m.proof)
BY SessionAssumption DEF ClientMessages, Msg, Ids

(* A record of the loop, of a task, of a message, field by field           *)
LEMMA Fields ==
  /\ \A t, p : Msg(t, p).type = t /\ Msg(t, p).proof = p
  /\ Error \in Replies /\ Error.type = "error" /\ Error = Msg("error", "none")
  /\ \A t \in Answers \cup {"error", "pong"}, p \in Ids : Msg(t, p) \in Replies
  /\ \A e \in Streams, p \in Ids : Msg(e, p) \in Messages
  /\ \A t, p, u, q : Msg(t, p) = Msg(u, q) => t = u /\ p = q
  /\ \A r \in Messages : r = Msg(r.type, r.proof) /\ r.proof \in Ids
  /\ Waiting.at = "wait" /\ Waiting.proof = "none" /\ Waiting.reply = Error
  /\ \A a : [Waiting EXCEPT !.at = a] = [at |-> a, proof |-> "none", reply |-> Error]
  /\ Receiving.at = "recv" /\ Receiving.proof = "none"
  /\ Replies \subseteq Messages /\ "none" \in Ids /\ Proofs \subseteq Ids
  /\ \A r \in Replies : r.type \in Answers \cup {"error", "pong"}
BY DEF Msg, Error, Replies, Messages, Ids, Answers, Streams, Waiting, Receiving

Steps == {"wait", "insert", "remove", "reply", "last", "cleanup", "cancel", "done"}
TaskSteps == {"recv", "check", "send", "done"}

(* The initial values are well typed.                                      *)
LEMMA InitTyped == Init => Typed
<1> SUFFICES ASSUME Init PROVE Typed
  OBVIOUS
<1>1. <<>> \in Seq(ClientMessages) /\ <<>> \in Seq(Messages) /\ <<>> \in Seq(Proofs)
  OBVIOUS
<1>2. Waiting \in [at : Steps, proof : Ids, reply : Replies]
  BY Fields DEF Steps, Waiting
<1>3. Receiving \in [at : TaskSteps, proof : Ids]
  BY Fields DEF TaskSteps, Receiving
<1>4. IsFiniteSet({})
  BY FS_EmptySet
<1> QED
  BY <1>1, <1>2, <1>3, <1>4 DEF Init, Typed, Steps, TaskSteps

(* The loop's part of a step                                               *)
LEMMA LoopTyped ==
  ASSUME Typed, Loop
  PROVE  /\ inbox' \in Seq(ClientMessages) /\ channel' \in Seq(Messages)
         /\ main' \in [at : Steps, proof : Ids, reply : Replies]
         /\ registered' \subseteq Proofs /\ IsFiniteSet(registered') /\ count' \in Nat
         /\ forward' = forward /\ events' = events
<1>1. /\ inbox \in Seq(ClientMessages) /\ channel \in Seq(Messages)
      /\ main.at \in Steps /\ main.proof \in Ids /\ main.reply \in Replies
      /\ main = [at |-> main.at, proof |-> main.proof, reply |-> main.reply]
      /\ registered \subseteq Proofs /\ IsFiniteSet(registered) /\ count \in Nat
  BY DEF Typed, Steps
<1>2. CASE Receive
  <2> DEFINE m == Head(inbox)
  <2>1. m \in ClientMessages /\ Tail(inbox) \in Seq(ClientMessages)
    BY <1>1, <1>2 DEF Receive
  <2>2. /\ m.type \in {"subscribe", "unsubscribe", "ping"} /\ m.proof \in Ids
        /\ m.type \in {"subscribe", "unsubscribe"} => m.proof \in Proofs
    BY <2>1, ClientMessageFacts
  <2>3. /\ Error \in Replies /\ Msg("subscribed", m.proof) \in Replies
        /\ Msg("unsubscribed", m.proof) \in Replies /\ Msg("pong", m.proof) \in Replies
    BY <2>2, Fields DEF Answers
  <2> HIDE DEF m
  <2>4. ChargeAfter(m.type, m.proof) \in Nat
    BY <1>1, <2>2 DEF ChargeAfter
  <2>5. IsFiniteSet(registered \cup {m.proof}) /\ IsFiniteSet(registered \ {m.proof})
    BY <1>1, FS_AddElement, FS_RemoveElement
  <2>6. UNCHANGED <<channel, forward, events>> /\ inbox' = Tail(inbox)
    BY <1>2 DEF Receive, taskVars, eventVars
  <2>7. \/ /\ main'.at = "insert"
           /\ main' = [at |-> "insert", proof |-> m.proof, reply |-> Msg("subscribed", m.proof)]
           /\ registered' = registered \cup {m.proof} /\ m.proof \in Proofs
           /\ count' = ChargeAfter(m.type, m.proof)
        \/ /\ main' = [at |-> "reply", proof |-> m.proof, reply |-> Error]
           /\ UNCHANGED <<registered, count>>
        \/ /\ main' = [at |-> "remove", proof |-> m.proof, reply |-> Msg("unsubscribed", m.proof)]
           /\ registered' = registered \ {m.proof}
           /\ count' = ChargeAfter(m.type, m.proof)
        \/ /\ main' = [at |-> "reply", proof |-> m.proof, reply |-> Msg("pong", m.proof)]
           /\ UNCHANGED <<registered, count>>
    BY <1>2, <2>2 DEF Receive, AfterSubscribe, m
  <2>8. main' \in [at : Steps, proof : Ids, reply : Replies]
    BY <2>2, <2>3, <2>7 DEF Steps
  <2>9. registered' \subseteq Proofs /\ IsFiniteSet(registered') /\ count' \in Nat
    BY <1>1, <2>4, <2>5, <2>7
  <2> QED
    BY <1>1, <2>1, <2>6, <2>8, <2>9
<1>3. CASE RateLimit
  <2>1. Tail(inbox) \in Seq(ClientMessages)
    BY <1>1, <1>3 DEF RateLimit
  <2>2. main' \in [at : Steps, proof : Ids, reply : Replies]
    BY <1>3, Fields DEF RateLimit, Steps
  <2> QED
    BY <1>1, <1>3, <2>1, <2>2 DEF RateLimit, taskVars, eventVars
<1>4. CASE UpdateLocal
  <2>1. main' = [at |-> "reply", proof |-> main.proof, reply |-> main.reply]
    BY <1>1, <1>4 DEF UpdateLocal
  <2> QED
    BY <1>1, <1>4, <2>1 DEF UpdateLocal, taskVars, eventVars, clientVars, Steps
<1>5. CASE Reply
  <2>1. channel' \in Seq(Messages)
    <3>1. Append(channel, main.reply) \in Seq(Messages)
      BY <1>1, Fields, AppendFacts
    <3> QED
      BY <1>1, <1>5, <3>1 DEF Reply
  <2>2. main' \in [at : Steps, proof : Ids, reply : Replies]
    <3>1. main' = Waiting \/ main' = [at |-> "cleanup", proof |-> "none", reply |-> Error]
      BY <1>5, Fields DEF Reply
    <3> QED
      BY <3>1, Fields DEF Steps, Waiting
  <2> QED
    BY <1>1, <1>5, <2>1, <2>2 DEF Reply, taskVars, eventVars, clientVars
<1>6. CASE StreamEnds
  <2>1. main' \in [at : Steps, proof : Ids, reply : Replies]
    BY <1>6, Fields DEF StreamEnds, Steps
  <2> QED
    BY <1>1, <1>6, <2>1 DEF StreamEnds, taskVars, eventVars
<1>7. CASE Cleanup
  <2>1. main' \in [at : Steps, proof : Ids, reply : Replies]
    BY <1>7, Fields DEF Cleanup, Steps
  <2>2. IsFiniteSet({})
    BY FS_EmptySet
  <2> QED
    BY <1>1, <1>7, <2>1, <2>2 DEF Cleanup, taskVars, eventVars, clientVars
<1>8. CASE Cancel
  <2>1. main' \in [at : Steps, proof : Ids, reply : Replies]
    BY <1>8, Fields DEF Cancel, Steps
  <2> QED
    BY <1>1, <1>8, <2>1 DEF Cancel, eventVars, clientVars
<1> QED
  BY <1>2, <1>3, <1>4, <1>5, <1>6, <1>7, <1>8 DEF Loop

(* A forwarding task's part of a step                                      *)
LEMMA TaskTyped ==
  ASSUME Typed, NEW e \in Streams, Task(e)
  PROVE  /\ UNCHANGED <<inbox, main, registered, count>> /\ channel' \in Seq(Messages)
         /\ events' \in [Streams -> Seq(Proofs)]
         /\ forward' \in [Streams -> [at : TaskSteps, proof : Ids]]
<1>1. /\ channel \in Seq(Messages) /\ events \in [Streams -> Seq(Proofs)]
      /\ forward \in [Streams -> [at : TaskSteps, proof : Ids]]
      /\ events[e] \in Seq(Proofs) /\ forward[e].proof \in Ids
      /\ \A a : [forward[e] EXCEPT !.at = a] = [at |-> a, proof |-> forward[e].proof]
  BY DEF Typed, TaskSteps
<1>2. CASE TakeEvent(e)
  <2>1. Head(events[e]) \in Proofs /\ Tail(events[e]) \in Seq(Proofs)
    BY <1>1, <1>2 DEF TakeEvent
  <2>2. [at |-> "check", proof |-> Head(events[e])] \in [at : TaskSteps, proof : Ids]
    BY <2>1, Fields DEF TaskSteps
  <2> QED
    BY <1>1, <1>2, <2>1, <2>2 DEF TakeEvent, clientVars, mainVars
<1>3. CASE Check(e)
  <2>1. \E s \in [at : TaskSteps, proof : Ids] : forward' = [forward EXCEPT ![e] = s]
    <3>1. Receiving \in [at : TaskSteps, proof : Ids]
      BY Fields DEF TaskSteps, Receiving
    <3>2. [forward[e] EXCEPT !.at = "send"] \in [at : TaskSteps, proof : Ids]
      BY <1>1 DEF TaskSteps
    <3> QED
      BY <1>3, <3>1, <3>2 DEF Check
  <2> QED
    BY <1>1, <1>3, <2>1 DEF Check, clientVars, mainVars, eventVars
<1>4. CASE Forward(e)
  <2>1. \E s \in [at : TaskSteps, proof : Ids] : forward' = [forward EXCEPT ![e] = s]
    <3>1. Receiving \in [at : TaskSteps, proof : Ids]
      BY Fields DEF TaskSteps, Receiving
    <3>2. [Receiving EXCEPT !.at = "done"] \in [at : TaskSteps, proof : Ids]
      BY Fields DEF TaskSteps, Receiving
    <3> QED
      BY <1>4, <3>1, <3>2 DEF Forward
  <2>2. Msg(e, forward[e].proof) \in Messages
    BY <1>1, Fields
  <2>3. channel' \in Seq(Messages)
    <3>1. Append(channel, Msg(e, forward[e].proof)) \in Seq(Messages)
      BY <1>1, <2>2, AppendFacts
    <3> QED
      BY <1>1, <1>4, <3>1 DEF Forward
  <2> QED
    BY <1>1, <1>4, <2>1, <2>3 DEF Forward, clientVars, mainVars, eventVars
<1>5. CASE StopForwarding(e)
  <2>1. forward' = [forward EXCEPT ![e] = [forward[e] EXCEPT !.at = "done"]]
    BY <1>5 DEF StopForwarding
  <2>2. [forward[e] EXCEPT !.at = "done"] \in [at : TaskSteps, proof : Ids]
    BY <1>1 DEF TaskSteps
  <2> QED
    BY <1>1, <1>5, <2>1, <2>2 DEF StopForwarding, clientVars, mainVars, eventVars
<1> QED
  BY <1>2, <1>3, <1>4, <1>5 DEF Task

(* The calendar's broadcast reaches the receiver, maybe over its oldest.   *)
LEMMA BroadcastTyped ==
  ASSUME Typed, NEW e \in Streams, NEW p \in Proofs, Broadcast(e, p)
  PROVE  events' \in [Streams -> Seq(Proofs)]
<1> DEFINE kept == IF Len(events[e]) = MaxLag THEN Tail(events[e]) ELSE events[e]
<1>1. events \in [Streams -> Seq(Proofs)] /\ events[e] \in Seq(Proofs)
  BY DEF Typed
<1>2. kept \in Seq(Proofs)
  BY <1>1, SessionAssumption
<1>3. Append(kept, p) \in Seq(Proofs)
  BY <1>2
<1>4. events' = events \/ events' = [events EXCEPT ![e] = Append(kept, p)]
  BY DEF Broadcast
<1> HIDE DEF kept
<1> QED
  BY <1>1, <1>3, <1>4

(* Every step keeps the types.                                             *)
LEMMA TypedStep ==
  ASSUME Typed, Next
  PROVE  Typed'
<1> USE DEF Steps, TaskSteps
<1>1. ASSUME NEW m \in ClientMessages, ClientSend(m) PROVE Typed'
  <2>1. Append(inbox, m) \in Seq(ClientMessages)
    BY DEF Typed
  <2> QED
    BY <1>1, <2>1 DEF ClientSend, Typed, mainVars, taskVars
<1>2. CASE HangUp
  BY <1>2 DEF HangUp, Typed, mainVars, taskVars, eventVars
<1>3. ASSUME NEW e \in Streams, NEW p \in Proofs, Broadcast(e, p) PROVE Typed'
  <2>1. events' \in [Streams -> Seq(Proofs)]
    BY <1>3, BroadcastTyped
  <2> QED
    BY <1>3, <2>1 DEF Broadcast, Typed, clientVars, mainVars, taskVars
<1>4. CASE Loop
  BY <1>4, LoopTyped DEF Typed
<1>5. ASSUME NEW e \in Streams, Task(e) PROVE Typed'
  BY <1>5, TaskTyped DEF Typed
<1>6. CASE SendToClient
  <2>1. Tail(channel) \in Seq(Messages)
    BY <1>6 DEF Typed, SendToClient
  <2> QED
    BY <1>6, <2>1 DEF SendToClient, Typed, mainVars, taskVars, eventVars
<1>7. CASE StopSending
  BY <1>7 DEF StopSending, Typed, clientVars, mainVars, eventVars
<1> QED
  BY <1>1, <1>2, <1>3, <1>4, <1>5, <1>6, <1>7 DEF Next

-----------------------------------------------------------------------------
(* The loop *)

(* Steps that leave the loop, its sets and the tasks' ends alone           *)
LEMMA PositionFrame ==
  ASSUME Position, UNCHANGED <<main, registered, localSubs, count, cancelled, sending>>,
         hungUp => hungUp', ~sending => channel' = <<>>,
         \A e \in Streams : forward'[e].at = "done" => forward[e].at = "done" \/ cancelled \/ ~sending
  PROVE  Position'
<1>1. UNCHANGED main
  OBVIOUS
<1>2. ReplyShape'
  BY <1>1 DEF Position, ReplyShape
<1>3. Books'
  BY DEF Position, Books
<1>4. Ends'
  BY <1>1 DEF Position, Ends
<1> QED
  BY <1>2, <1>3, <1>4 DEF Position

(* A message is read: the registry is changed and charged first.           *)
LEMMA ReceivePosition ==
  ASSUME Typed, Position, Receive
  PROVE  Position'
<1> DEFINE m == Head(inbox)
<1>1. m \in ClientMessages
  BY DEF Typed, Receive
<1>2. /\ m.type \in {"subscribe", "unsubscribe", "ping"} /\ m.proof \in Ids
      /\ m.type \in {"subscribe", "unsubscribe"} => m.proof \in Proofs
  BY <1>1, ClientMessageFacts
<1>3. /\ main.at = "wait" /\ registered = localSubs /\ Cardinality(registered) <= count
      /\ IsFiniteSet(registered) /\ count \in Nat /\ Cardinality(registered) \in Nat
  BY FS_CardinalityType DEF Typed, Position, Books, Receive
<1>4. /\ UNCHANGED <<localSubs, cancelled, sending, hungUp, channel, forward>>
      /\ ~cancelled
  BY <1>3 DEF Receive, taskVars, Position, Ends
<1>5. Error.type = "error" /\ Msg("pong", m.proof).type = "pong"
  BY Fields
<1>6. \/ /\ main' = [at |-> "insert", proof |-> m.proof, reply |-> Msg("subscribed", m.proof)]
         /\ registered' = registered \cup {m.proof}
         /\ count' = count + 1
      \/ /\ main' = [at |-> "reply", proof |-> m.proof, reply |-> Error]
         /\ UNCHANGED <<registered, count>>
      \/ /\ main' = [at |-> "remove", proof |-> m.proof, reply |-> Msg("unsubscribed", m.proof)]
         /\ registered' = registered \ {m.proof}
         /\ count' = IF m.proof \in registered /\ count > 0 THEN count - 1 ELSE count
      \/ /\ main' = [at |-> "reply", proof |-> m.proof, reply |-> Msg("pong", m.proof)]
         /\ UNCHANGED <<registered, count>>
  BY DEF Receive, AfterSubscribe, ChargeAfter
<1> HIDE DEF m
<1>7. ReplyShape'
  BY <1>5, <1>6, Fields DEF ReplyShape, Answers
<1>8. Cardinality(registered') <= count'
  <2>1. /\ Cardinality(registered \cup {m.proof}) <= Cardinality(registered) + 1
        /\ m.proof \in registered => Cardinality(registered \ {m.proof}) = Cardinality(registered) - 1
        /\ m.proof \notin registered => registered \ {m.proof} = registered
        /\ Cardinality(registered \cup {m.proof}) \in Nat
    <3>1. Cardinality(registered \cup {m.proof}) =
            IF m.proof \in registered THEN Cardinality(registered) ELSE Cardinality(registered) + 1
      BY <1>3, FS_AddElement
    <3>2. Cardinality(registered \ {m.proof}) =
            IF m.proof \in registered THEN Cardinality(registered) - 1 ELSE Cardinality(registered)
      BY <1>3, FS_RemoveElement
    <3> QED
      BY <1>3, <3>1, <3>2
  <2>2. CASE registered' = registered \cup {m.proof} /\ count' = count + 1
    BY <1>3, <2>1, <2>2
  <2>3. CASE /\ registered' = registered \ {m.proof}
             /\ count' = IF m.proof \in registered /\ count > 0 THEN count - 1 ELSE count
    <3>1. CASE m.proof \in registered
      BY <1>3, <2>1, <2>3, <3>1
    <3>2. CASE m.proof \notin registered
      <4>1. registered' = registered /\ count' = count
        BY <2>1, <2>3, <3>2
      <4> QED
        BY <1>3, <4>1
    <3> QED
      BY <3>1, <3>2
  <2>4. CASE UNCHANGED <<registered, count>>
    BY <1>3, <2>4
  <2> QED
    BY <1>6, <2>2, <2>3, <2>4
<1>9. Books'
  BY <1>3, <1>4, <1>6, <1>8 DEF Books
<1>10. Ends'
  BY <1>4 DEF Position, Ends
<1> QED
  BY <1>7, <1>9, <1>10 DEF Position

(* The rest of the loop                                                    *)
LEMMA LoopPosition ==
  ASSUME Typed, Position, Loop
  PROVE  Position'
<1>1. /\ main = [at |-> main.at, proof |-> main.proof, reply |-> main.reply]
      /\ main.at \in Steps
  BY DEF Typed, Steps
<1>2. CASE Receive
  BY <1>2, ReceivePosition
<1>3. CASE RateLimit
  <2>1. /\ main' = [at |-> "last", proof |-> "none", reply |-> Error] /\ main.at = "wait"
        /\ UNCHANGED <<registered, count, localSubs, cancelled, sending, hungUp, channel, forward>>
    BY <1>3 DEF RateLimit, taskVars
  <2> QED
    BY <2>1 DEF Position, ReplyShape, Books, Ends
<1>4. CASE UpdateLocal
  <2>1. /\ main' = [at |-> "reply", proof |-> main.proof, reply |-> main.reply]
        /\ main.at \in {"insert", "remove"}
        /\ localSubs' = IF main.at = "insert" THEN localSubs \cup {main.proof}
                                              ELSE localSubs \ {main.proof}
        /\ UNCHANGED <<registered, count, cancelled, sending, hungUp, channel, forward>>
    BY <1>1, <1>4 DEF UpdateLocal, taskVars, clientVars
  <2>2. ReplyShape'
    BY <2>1, Fields DEF Position, ReplyShape
  <2>3. Books'
    BY <2>1 DEF Position, Books
  <2>4. Ends'
    BY <2>1 DEF Position, Ends
  <2> QED
    BY <2>2, <2>3, <2>4 DEF Position
<1>5. CASE Reply
  <2>1. /\ main' = Waiting \/ main' = [at |-> "cleanup", proof |-> "none", reply |-> Error]
        /\ main.at = "reply" \/ (main'.at = "cleanup" /\ main.at = "last")
        /\ ~sending => channel' = channel
        /\ UNCHANGED <<registered, count, localSubs, cancelled, sending, hungUp, forward>>
    BY <1>5, Fields DEF Reply, taskVars, clientVars
  <2>2. /\ main'.at = "wait" \/ main'.at = "cleanup"
        /\ main'.at = "wait" => main.at = "reply"
    BY <2>1, Fields
  <2>3. ReplyShape'
    BY <2>2 DEF ReplyShape
  <2>4. Books'
    BY <2>1, <2>2 DEF Position, Books
  <2>5. Ends'
    BY <2>1, <2>2 DEF Position, Ends
  <2> QED
    BY <2>3, <2>4, <2>5 DEF Position
<1>6. CASE StreamEnds
  <2>1. /\ main' = [at |-> "cleanup", proof |-> "none", reply |-> Error] /\ main.at = "wait"
        /\ UNCHANGED <<registered, count, localSubs, cancelled, sending, hungUp, channel, forward>>
    BY <1>6, Fields DEF StreamEnds, taskVars
  <2> QED
    BY <2>1 DEF Position, ReplyShape, Books, Ends
<1>7. CASE Cleanup
  <2>1. /\ main' = [at |-> "cancel", proof |-> "none", reply |-> Error] /\ main.at = "cleanup"
        /\ registered' = {} /\ count' = 0
        /\ UNCHANGED <<localSubs, cancelled, sending, hungUp, channel, forward>>
    BY <1>7, Fields DEF Cleanup, taskVars, clientVars
  <2>2. Cardinality(registered') <= count'
    BY <2>1, FS_EmptySet
  <2> QED
    BY <2>1, <2>2 DEF Position, ReplyShape, Books, Ends
<1>8. CASE Cancel
  <2>1. /\ main' = [at |-> "done", proof |-> "none", reply |-> Error] /\ main.at = "cancel"
        /\ cancelled'
        /\ UNCHANGED <<registered, count, localSubs, sending, hungUp, channel, forward>>
    BY <1>8, Fields DEF Cancel, clientVars
  <2> QED
    BY <2>1 DEF Position, ReplyShape, Books, Ends
<1> QED
  BY <1>2, <1>3, <1>4, <1>5, <1>6, <1>7, <1>8 DEF Loop

(* Every step                                                              *)
LEMMA PositionStep ==
  ASSUME Typed, Position, Next
  PROVE  Position'
<1>0. /\ ~sending => channel = <<>>
      /\ forward \in [Streams -> [at : TaskSteps, proof : Ids]]
  BY DEF Position, Ends, Typed, TaskSteps
<1>1. ASSUME NEW m \in ClientMessages, ClientSend(m) PROVE Position'
  BY <1>0, <1>1, PositionFrame DEF ClientSend, mainVars, taskVars
<1>2. CASE HangUp
  BY <1>0, <1>2, PositionFrame DEF HangUp, mainVars, taskVars
<1>3. ASSUME NEW e \in Streams, NEW p \in Proofs, Broadcast(e, p) PROVE Position'
  BY <1>0, <1>3, PositionFrame DEF Broadcast, clientVars, mainVars, taskVars
<1>4. CASE Loop
  BY <1>4, LoopPosition
<1>5. ASSUME NEW e \in Streams, Task(e) PROVE Position'
  <2>1. UNCHANGED <<main, registered, localSubs, count, cancelled, sending, hungUp>>
    BY <1>5 DEF Task, TakeEvent, Check, Forward, StopForwarding, clientVars, mainVars
  <2>2. ~sending => channel' = channel
    BY <1>5 DEF Task, TakeEvent, Check, Forward, StopForwarding
  <2>3. \A d \in Streams : forward'[d].at = "done" => forward[d].at = "done" \/ cancelled \/ ~sending
    <3>1. CASE TakeEvent(e)
      BY <1>0, <3>1 DEF TakeEvent
    <3>2. CASE Check(e)
      <4>1. \A d \in Streams : forward'[d].at = "done" => forward[d].at = "done"
        BY <1>0, <3>2, Fields DEF Check
      <4> QED
        BY <4>1
    <3>3. CASE Forward(e)
      BY <1>0, <3>3, Fields DEF Forward
    <3>4. CASE StopForwarding(e)
      BY <3>4 DEF StopForwarding
    <3> QED
      BY <1>5, <3>1, <3>2, <3>3, <3>4 DEF Task
  <2> QED
    BY <1>0, <2>1, <2>2, <2>3, PositionFrame
<1>6. CASE SendToClient
  BY <1>0, <1>6, PositionFrame DEF SendToClient, mainVars, taskVars
<1>7. CASE StopSending
  <2>1. /\ UNCHANGED <<main, registered, localSubs, count, cancelled, hungUp, forward>>
        /\ ~sending' /\ channel' = <<>> /\ (cancelled \/ hungUp)
    BY <1>7 DEF StopSending, clientVars, mainVars
  <2>2. UNCHANGED main
    BY <2>1
  <2>3. ReplyShape' /\ Books' /\ Ends'
    BY <2>1, <2>2 DEF Position, ReplyShape, Books, Ends
  <2> QED
    BY <2>3 DEF Position
<1> QED
  BY <1>1, <1>2, <1>3, <1>4, <1>5, <1>6, <1>7 DEF Next

-----------------------------------------------------------------------------
(* What the client has been told *)

(* A task sends nothing about a proof it does not find in the set.         *)
LEMMA FlightStep ==
  ASSUME Typed, Next, NEW p, p \notin localSubs, ~InFlight(p)
  PROVE  ~InFlight(p)'
<1>1. forward \in [Streams -> [at : TaskSteps, proof : Ids]]
  BY DEF Typed, TaskSteps
<1>2. ASSUME NEW e \in Streams, Task(e) PROVE ~InFlight(p)'
  <2>1. CASE TakeEvent(e)
    BY <1>1, <2>1 DEF TakeEvent, InFlight
  <2>2. CASE Check(e)
    <3>1. CASE forward[e].proof \in localSubs
      <4>1. forward' = [forward EXCEPT ![e] = [forward[e] EXCEPT !.at = "send"]]
        BY <2>2, <3>1 DEF Check
      <4>2. forward'[e].proof = forward[e].proof /\ \A d \in Streams \ {e} : forward'[d] = forward[d]
        BY <1>1, <4>1
      <4> QED
        BY <3>1, <4>2 DEF InFlight
    <3>2. CASE forward[e].proof \notin localSubs
      <4>1. forward' = [forward EXCEPT ![e] = Receiving]
        BY <2>2, <3>2 DEF Check
      <4> QED
        BY <1>1, <4>1, Fields DEF InFlight
    <3> QED
      BY <3>1, <3>2
  <2>3. CASE Forward(e)
    <3>1. PICK s \in {Receiving, [Receiving EXCEPT !.at = "done"]} : forward' = [forward EXCEPT ![e] = s]
      BY <2>3 DEF Forward
    <3>2. s.at # "send"
      BY <3>1, Fields DEF Receiving
    <3>3. forward'[e] = s /\ \A d \in Streams \ {e} : forward'[d] = forward[d]
      BY <1>1, <3>1
    <3> QED
      BY <3>2, <3>3 DEF InFlight
  <2>4. CASE StopForwarding(e)
    BY <1>1, <2>4 DEF StopForwarding, InFlight
  <2> QED
    BY <1>2, <2>1, <2>2, <2>3, <2>4 DEF Task
<1>3. CASE UNCHANGED forward
  BY <1>3 DEF InFlight
<1>4. (\E e \in Streams : Task(e)) \/ UNCHANGED forward
  BY DEF Next, ClientSend, HangUp, Broadcast, Loop, Receive, RateLimit, UpdateLocal, Reply,
         StreamEnds, Cleanup, Cancel, SendToClient, StopSending, taskVars
<1> QED
  BY <1>2, <1>3, <1>4

(* Steps that leave the channel and the set alone, and hold no answer      *)
(* before or after, or the same one.                                       *)
LEMMA ToldFrame ==
  ASSUME NEW p, Told(p), UNCHANGED <<localSubs, channel>>,
         p \notin localSubs /\ ~InFlight(p) => ~InFlight(p)',
         \/ UNCHANGED main
         \/ main.at # "reply" /\ main'.at # "reply"
         \/ main.at # "reply" /\ main'.reply.type \notin Answers
  PROVE  Told(p)'
<1>1. /\ Replying("subscribed", p)' <=> Replying("subscribed", p)
      /\ Replying("unsubscribed", p)' <=> Replying("unsubscribed", p)
  BY Fields DEF Replying, Answers
<1>2. ToldSubscribed(p)'
  BY <1>1 DEF Told, ToldSubscribed
<1>3. ASSUME NEW i \in DOMAIN channel, LastAnswer(channel, i, p), channel[i].type = "unsubscribed"
      PROVE  Replying("subscribed", p) \/ (p \notin localSubs /\ ~InFlight(p)' /\ QuietFrom(channel, i, p))
  BY <1>3 DEF Told, ToldUnsubscribed
<1>4. Replying("unsubscribed", p) => p \notin localSubs /\ ~InFlight(p)'
  BY DEF Told, ToldUnsubscribed
<1>5. ToldUnsubscribed(p)'
  BY <1>1, <1>3, <1>4 DEF ToldUnsubscribed
<1> QED
  BY <1>2, <1>5 DEF Told

(* The loop changes the set: no task is between look-up and send, and the  *)
(* answer is in the loop's hands.                                          *)
LEMMA UpdateTold ==
  ASSUME Typed, Position, NEW p, Told(p), UpdateLocal
  PROVE  Told(p)'
<1>1. /\ main = [at |-> main.at, proof |-> main.proof, reply |-> main.reply]
      /\ main.at \in Steps
  BY DEF Typed, Steps
<1>2. /\ main' = [at |-> "reply", proof |-> main.proof, reply |-> main.reply]
      /\ main.at \in {"insert", "remove"}
      /\ localSubs' = IF main.at = "insert" THEN localSubs \cup {main.proof}
                                            ELSE localSubs \ {main.proof}
      /\ UNCHANGED <<channel, forward>>
  BY <1>1 DEF UpdateLocal, taskVars, clientVars
<1>3. ~InFlight(p)
  BY DEF UpdateLocal, HoldsGuard, InFlight
<1>4. ~InFlight(p)'
  BY <1>2, <1>3 DEF InFlight
<1>5. ~Replying("subscribed", p) /\ ~Replying("unsubscribed", p)
  BY <1>2 DEF Replying
<1>6. CASE main.at = "insert"
  <2>1. main.reply = Msg("subscribed", main.proof)
    BY <1>6 DEF Position, ReplyShape
  <2>2. /\ p = main.proof => Replying("subscribed", p)' /\ p \in localSubs'
        /\ p # main.proof => (p \in localSubs' <=> p \in localSubs)
        /\ ~Replying("unsubscribed", p)'
        /\ Replying("subscribed", p)' => p \in localSubs'
    BY <1>2, <1>6, <2>1, Fields DEF Replying
  <2>3. ToldSubscribed(p)'
    BY <1>2, <1>5, <2>2 DEF Told, ToldSubscribed
  <2>4. ToldUnsubscribed(p)'
    BY <1>2, <1>4, <1>5, <2>2 DEF Told, ToldUnsubscribed
  <2> QED
    BY <2>3, <2>4 DEF Told
<1>7. CASE main.at = "remove"
  <2>1. main.reply = Msg("unsubscribed", main.proof)
    BY <1>7 DEF Position, ReplyShape
  <2>2. /\ p = main.proof => Replying("unsubscribed", p)' /\ p \notin localSubs'
        /\ p # main.proof => (p \in localSubs' <=> p \in localSubs)
        /\ ~Replying("subscribed", p)'
        /\ Replying("unsubscribed", p)' => p \notin localSubs'
    BY <1>2, <1>7, <2>1, Fields DEF Replying
  <2>3. ToldSubscribed(p)'
    BY <1>2, <1>5, <2>2 DEF Told, ToldSubscribed
  <2>4. p \notin localSubs => p \notin localSubs'
    BY <2>2
  <2>5. ToldUnsubscribed(p)'
    BY <1>2, <1>4, <1>5, <2>2, <2>4 DEF Told, ToldUnsubscribed
  <2> QED
    BY <2>3, <2>5 DEF Told
<1> QED
  BY <1>2, <1>6, <1>7

(* The answer goes into the channel, after every event sent before it.     *)
LEMMA ReplyTold ==
  ASSUME Typed, Position, NEW p, Told(p), Reply
  PROVE  Told(p)'
<1> DEFINE r == main.reply
           a == Append(channel, r)
<1>1. channel \in Seq(Messages) /\ r \in Replies /\ r \in Messages /\ r = Msg(r.type, r.proof)
  BY Fields DEF Typed
<1>2. /\ UNCHANGED <<localSubs, forward>> /\ main'.at # "reply"
      /\ main.at = "reply" \/ (main.at = "last" /\ r = Error)
      /\ sending => channel' = a
      /\ ~sending => channel' = <<>>
  BY Fields DEF Reply, Position, ReplyShape, Ends, taskVars
<1>3. ~Event(r, p)
  BY <1>1, Fields DEF Event, Streams, Answers
<1>4. /\ Answer(r, p) => main.at = "reply" /\ r = Msg(r.type, p)
      /\ Answer(r, p) => r.type \in Answers /\ Replying(r.type, p)
      /\ Replying("subscribed", p) \/ Replying("unsubscribed", p) => Answer(r, p)
  BY <1>1, <1>2, Fields DEF Answer, Answers, Replying
<1>5. ~Replying("subscribed", p)' /\ ~Replying("unsubscribed", p)' /\ InFlight(p)' = InFlight(p)
  BY <1>2 DEF Replying, InFlight
<1>6. CASE ~sending
  BY <1>2, <1>5, <1>6 DEF Told, ToldSubscribed, ToldUnsubscribed
<1>7. CASE sending
  <2>1. ASSUME NEW i
        PROVE  /\ LastAnswer(a, i, p) =>
                    \/ a[i] = r /\ Answer(r, p) /\ QuietFrom(a, i, p)
                    \/ LastAnswer(channel, i, p) /\ ~Answer(r, p) /\ a[i] = channel[i]
               /\ QuietFrom(channel, i, p) => QuietFrom(a, i, p)
    BY <1>1, <1>3, AppendAnswers
  <2> HIDE DEF r, a
  <2>2. ASSUME NEW i, LastAnswer(a, i, p), a[i].type = "subscribed" PROVE p \in localSubs
    <3>1. CASE a[i] = r /\ Answer(r, p)
      BY <1>4, <2>2, <3>1 DEF Told, ToldSubscribed
    <3>2. CASE LastAnswer(channel, i, p) /\ ~Answer(r, p) /\ a[i] = channel[i]
      <4>1. i \in DOMAIN channel
        BY <3>2 DEF LastAnswer
      <4> QED
        BY <1>4, <2>2, <3>2, <4>1 DEF Told, ToldSubscribed
    <3> QED
      BY <2>1, <2>2, <3>1, <3>2
  <2>3. ASSUME NEW i, LastAnswer(a, i, p), a[i].type = "unsubscribed"
        PROVE  p \notin localSubs /\ ~InFlight(p) /\ QuietFrom(a, i, p)
    <3>1. CASE a[i] = r /\ Answer(r, p) /\ QuietFrom(a, i, p)
      BY <1>4, <2>3, <3>1 DEF Told, ToldUnsubscribed
    <3>2. CASE LastAnswer(channel, i, p) /\ ~Answer(r, p) /\ a[i] = channel[i]
      <4>1. i \in DOMAIN channel
        BY <3>2 DEF LastAnswer
      <4> QED
        BY <1>4, <2>1, <2>3, <3>2, <4>1 DEF Told, ToldUnsubscribed
    <3> QED
      BY <2>1, <2>3, <3>1, <3>2
  <2>4. ToldSubscribed(p)' /\ ToldUnsubscribed(p)'
    BY <1>2, <1>5, <1>7, <2>2, <2>3 DEF ToldSubscribed, ToldUnsubscribed
  <2> QED
    BY <2>4 DEF Told
<1> QED
  BY <1>6, <1>7

(* An event goes into the channel.                                         *)
LEMMA ForwardTold ==
  ASSUME Typed, NEW e \in Streams, NEW p, Told(p), Forward(e),
         p \notin localSubs /\ ~InFlight(p) => ~InFlight(p)'
  PROVE  Told(p)'
<1> DEFINE m == Msg(e, forward[e].proof)
           a == Append(channel, m)
<1>1. UNCHANGED <<main, localSubs>>
  BY DEF Forward, mainVars
<1>2. CASE ~sending
  BY <1>1, <1>2, ToldFrame DEF Forward
<1>3. CASE sending
  <2>1. channel \in Seq(Messages) /\ m \in Messages /\ channel' = a
    BY <1>3, Fields DEF Forward, Typed
  <2>2. ~Answer(m, p) /\ (p = forward[e].proof => InFlight(p)) /\ (p # forward[e].proof => ~Event(m, p))
    BY Fields DEF Answer, Event, Streams, InFlight, Forward
  <2> HIDE DEF m
  <2>3. ASSUME NEW i
        PROVE  /\ LastAnswer(a, i, p) => LastAnswer(channel, i, p) /\ a[i] = channel[i]
               /\ QuietFrom(channel, i, p) /\ ~Event(m, p) => QuietFrom(a, i, p)
    <3>1. /\ LastAnswer(a, i, p) =>
               \/ a[i] = m /\ Answer(m, p) /\ QuietFrom(a, i, p)
               \/ LastAnswer(channel, i, p) /\ ~Answer(m, p) /\ a[i] = channel[i]
          /\ QuietFrom(channel, i, p) /\ ~Event(m, p) => QuietFrom(a, i, p)
      BY <2>1, AppendAnswers
    <3> HIDE DEF a
    <3> QED
      BY <2>2, <3>1
  <2> HIDE DEF a
  <2>4. \A i : LastAnswer(channel, i, p) => i \in DOMAIN channel
    BY DEF LastAnswer
  <2>5. /\ Replying("subscribed", p)' <=> Replying("subscribed", p)
        /\ Replying("unsubscribed", p)' <=> Replying("unsubscribed", p)
    BY <1>1 DEF Replying
  <2>6. ASSUME NEW i, LastAnswer(a, i, p), a[i].type = "unsubscribed"
        PROVE  Replying("subscribed", p) \/ (p \notin localSubs /\ ~InFlight(p)' /\ QuietFrom(a, i, p))
    BY <2>2, <2>3, <2>4, <2>6 DEF Told, ToldUnsubscribed
  <2>7. ASSUME NEW i, LastAnswer(a, i, p), a[i].type = "subscribed"
        PROVE  p \in localSubs \/ Replying("unsubscribed", p)
    BY <2>3, <2>4, <2>7 DEF Told, ToldSubscribed
  <2>8. ToldSubscribed(p)'
    BY <1>1, <2>1, <2>5, <2>7 DEF Told, ToldSubscribed
  <2>9. ToldUnsubscribed(p)'
    BY <1>1, <2>1, <2>5, <2>6 DEF Told, ToldUnsubscribed
  <2> QED
    BY <2>8, <2>9 DEF Told
<1> QED
  BY <1>2, <1>3

(* The first message leaves the channel, or all of them do.                *)
LEMMA DrainTold ==
  ASSUME Typed, NEW p, Told(p), SendToClient \/ StopSending
  PROVE  Told(p)'
<1>1. UNCHANGED <<main, localSubs, forward>>
  BY DEF SendToClient, StopSending, mainVars, taskVars
<1>2. /\ Replying("subscribed", p)' <=> Replying("subscribed", p)
      /\ Replying("unsubscribed", p)' <=> Replying("unsubscribed", p)
      /\ InFlight(p)' <=> InFlight(p)
  BY <1>1 DEF Replying, InFlight
<1>3. CASE StopSending
  <2>1. channel' = <<>>
    BY <1>3 DEF StopSending
  <2> QED
    BY <1>1, <1>2, <2>1 DEF Told, ToldSubscribed, ToldUnsubscribed
<1>4. CASE SendToClient
  <2> DEFINE t == Tail(channel)
  <2>1. channel \in Seq(Messages) /\ channel # <<>> /\ channel' = t
    BY <1>4 DEF SendToClient, Typed
  <2>2. ASSUME NEW i
        PROVE  /\ LastAnswer(t, i, p) => LastAnswer(channel, i + 1, p) /\ t[i] = channel[i + 1] /\ i \in Nat
               /\ i \in Nat /\ QuietFrom(channel, i + 1, p) => QuietFrom(t, i, p)
    BY <2>1, TailAnswers
  <2> HIDE DEF t
  <2>3. \A i : LastAnswer(channel, i, p) => i \in DOMAIN channel
    BY DEF LastAnswer
  <2>4. ASSUME NEW i, LastAnswer(t, i, p), t[i].type = "unsubscribed"
        PROVE  Replying("subscribed", p) \/ (p \notin localSubs /\ ~InFlight(p) /\ QuietFrom(t, i, p))
    BY <2>2, <2>3, <2>4 DEF Told, ToldUnsubscribed
  <2>5. ASSUME NEW i, LastAnswer(t, i, p), t[i].type = "subscribed"
        PROVE  p \in localSubs \/ Replying("unsubscribed", p)
    BY <2>2, <2>3, <2>5 DEF Told, ToldSubscribed
  <2>6. ToldSubscribed(p)'
    BY <1>1, <1>2, <2>1, <2>5 DEF Told, ToldSubscribed
  <2>7. ToldUnsubscribed(p)'
    BY <1>1, <1>2, <2>1, <2>4 DEF Told, ToldUnsubscribed
  <2> QED
    BY <2>6, <2>7 DEF Told
<1> QED
  BY <1>3, <1>4

(* Every step                                                              *)
LEMMA ToldStep ==
  ASSUME Typed, Position, NEW p, Told(p), Next
  PROVE  Told(p)'
<1>0. p \notin localSubs /\ ~InFlight(p) => ~InFlight(p)'
  BY FlightStep
<1>1. ASSUME NEW m \in ClientMessages, ClientSend(m) PROVE Told(p)'
  BY <1>0, <1>1, ToldFrame DEF ClientSend, mainVars
<1>2. CASE HangUp
  BY <1>0, <1>2, ToldFrame DEF HangUp, mainVars
<1>3. ASSUME NEW e \in Streams, NEW q \in Proofs, Broadcast(e, q) PROVE Told(p)'
  BY <1>0, <1>3, ToldFrame DEF Broadcast, mainVars
<1>4. CASE Loop
  <2>1. CASE Receive
    <3>1. /\ UNCHANGED <<localSubs, channel>> /\ main.at # "reply"
          /\ main'.at # "reply" \/ main'.reply.type \notin Answers
      BY <2>1, Fields DEF Receive, AfterSubscribe, Answers
    <3> QED
      BY <1>0, <3>1, ToldFrame
  <2>2. CASE RateLimit \/ StreamEnds \/ Cleanup \/ Cancel
    <3>1. UNCHANGED <<localSubs, channel>> /\ main.at # "reply" /\ main'.at # "reply"
      <4>1. CASE RateLimit
        BY <4>1 DEF RateLimit
      <4>2. CASE StreamEnds
        BY <4>2, Fields DEF StreamEnds
      <4>3. CASE Cleanup
        BY <4>3, Fields DEF Cleanup
      <4>4. CASE Cancel
        BY <4>4, Fields DEF Cancel
      <4> QED
        BY <2>2, <4>1, <4>2, <4>3, <4>4
    <3> QED
      BY <1>0, <3>1, ToldFrame
  <2>3. CASE UpdateLocal
    BY <2>3, UpdateTold
  <2>4. CASE Reply
    BY <2>4, ReplyTold
  <2> QED
    BY <1>4, <2>1, <2>2, <2>3, <2>4 DEF Loop
<1>5. ASSUME NEW e \in Streams, Task(e) PROVE Told(p)'
  <2>1. CASE TakeEvent(e) \/ Check(e) \/ StopForwarding(e)
    BY <1>0, <2>1, ToldFrame DEF TakeEvent, Check, StopForwarding, mainVars
  <2>2. CASE Forward(e)
    BY <1>0, <2>2, ForwardTold
  <2> QED
    BY <1>5, <2>1, <2>2 DEF Task
<1>6. CASE SendToClient \/ StopSending
  BY <1>6, DrainTold
<1> QED
  BY <1>1, <1>2, <1>3, <1>4, <1>5, <1>6 DEF Next

-----------------------------------------------------------------------------
(* What the client knows *)

(* A settled answer at the head of the channel is the last one.            *)
LEMMA SettledLast ==
  ASSUME Typed, channel # <<>>, NEW p, Answer(Head(channel), p), Settled(p)
  PROVE  LastAnswer(channel, 1, p) /\ main.proof # p /\ \A t : Msg(t, p) \notin ToSet(inbox)
<1>1. channel \in Seq(Messages)
  BY DEF Typed
<1>2. 1 \in DOMAIN channel /\ Head(channel) = channel[1] /\ DOMAIN channel = 1..Len(channel)
      /\ Len(channel) \in Nat
  BY <1>1, TailFacts
<1>3. ASSUME NEW j \in DOMAIN channel, j > 1 PROVE ~Answer(channel[j], p)
  <2>1. j \in 2..Len(channel)
    BY <1>2, <1>3
  <2> QED
    BY <2>1 DEF Settled, Answer
<1>4. LastAnswer(channel, 1, p)
  BY <1>2, <1>3 DEF LastAnswer
<1>5. ASSUME NEW t, Msg(t, p) \in ToSet(inbox) PROVE FALSE
  <2>1. PICK i \in DOMAIN inbox : inbox[i] = Msg(t, p)
    BY <1>5 DEF ToSet
  <2>2. inbox[i].proof = p
    BY <2>1, Fields
  <2> QED
    BY <2>2 DEF Settled
<1> QED
  BY <1>4, <1>5 DEF Settled

(* A client message goes to the end of the inbox, the first leaves it.     *)
LEMMA InboxFacts ==
  ASSUME Typed
  PROVE  /\ \A m \in ClientMessages : ToSet(Append(inbox, m)) = ToSet(inbox) \cup {m}
         /\ inbox # <<>> => /\ ToSet(inbox) = {Head(inbox)} \cup ToSet(Tail(inbox))
                            /\ Head(inbox) \in ClientMessages
         /\ ToSet(<<>>) = {}
<1>1. inbox \in Seq(ClientMessages)
  BY DEF Typed
<1>2. ToSet(<<>>) = {}
  BY DEF ToSet
<1>3. inbox # <<>> => /\ ToSet(inbox) = {Head(inbox)} \cup ToSet(Tail(inbox))
                      /\ Head(inbox) \in ClientMessages
  BY <1>1, TailFacts
<1>4. ASSUME NEW m \in ClientMessages PROVE ToSet(Append(inbox, m)) = ToSet(inbox) \cup {m}
  BY <1>1, AppendFacts
<1> QED
  BY <1>2, <1>3, <1>4

(* Messages leave the channel from the front; the loop puts its answer in  *)
(* at the end, a task the event it has in flight.                          *)
LEMMA ChannelStep ==
  ASSUME Typed, Next
  PROVE  \A m : m \in ToSet(channel') =>
           \/ m \in ToSet(channel) \/ m \in Replies
           \/ \E e \in Streams : m = Msg(e, forward[e].proof) /\ InFlight(forward[e].proof)
<1>1. channel \in Seq(Messages) /\ main.reply \in Replies /\ main.reply \in Messages
  BY Fields DEF Typed
<1>2. \A e \in Streams : Msg(e, forward[e].proof) \in Messages
  BY Fields DEF Typed
<1>3. CASE channel' = channel
  BY <1>3
<1>4. CASE channel' = Append(channel, main.reply)
  <2>1. ToSet(channel') = ToSet(channel) \cup {main.reply}
    BY <1>1, <1>4, AppendFacts
  <2> QED
    BY <1>1, <2>1
<1>5. ASSUME NEW e \in Streams, forward[e].at = "send",
             channel' = Append(channel, Msg(e, forward[e].proof))
      PROVE  \A m : m \in ToSet(channel') =>
               m \in ToSet(channel) \/ (m = Msg(e, forward[e].proof) /\ InFlight(forward[e].proof))
  <2>1. ToSet(channel') = ToSet(channel) \cup {Msg(e, forward[e].proof)}
    BY <1>1, <1>2, <1>5, AppendFacts
  <2>2. InFlight(forward[e].proof)
    BY <1>5 DEF InFlight
  <2> QED
    BY <2>1, <2>2
<1>6. CASE channel # <<>> /\ channel' = Tail(channel)
  <2>1. ToSet(channel) = {Head(channel)} \cup ToSet(channel')
    BY <1>1, <1>6, TailFacts
  <2> QED
    BY <2>1
<1>7. CASE channel' = <<>>
  BY <1>7 DEF ToSet
<1>8. \/ channel' = channel \/ channel' = <<>> \/ channel' = Append(channel, main.reply)
      \/ channel # <<>> /\ channel' = Tail(channel)
      \/ \E e \in Streams : forward[e].at = "send" /\ channel' = Append(channel, Msg(e, forward[e].proof))
  <2>1. CASE Loop
    BY <2>1 DEF Loop, Receive, RateLimit, UpdateLocal, Reply, StreamEnds, Cleanup, Cancel
  <2>2. ASSUME NEW e \in Streams, Task(e)
        PROVE  channel' = channel \/ (forward[e].at = "send" /\ channel' = Append(channel, Msg(e, forward[e].proof)))
    BY <2>2 DEF Task, TakeEvent, Check, Forward, StopForwarding
  <2> QED
    BY <2>1, <2>2 DEF Next, ClientSend, HangUp, Broadcast, SendToClient, StopSending
<1> QED
  BY <1>3, <1>4, <1>5, <1>6, <1>7, <1>8

(* No step brings an event about a proof that is not in the set and not    *)
(* in flight.                                                              *)
LEMMA SilenceStep ==
  ASSUME Typed, Next, NEW p, p \notin localSubs, ~InFlight(p),
         \A e \in Streams : Msg(e, p) \notin ToSet(channel)
  PROVE  ~InFlight(p)' /\ \A e \in Streams : Msg(e, p) \notin ToSet(channel')
<1>1. ~InFlight(p)'
  BY FlightStep
<1>2. ASSUME NEW e \in Streams, Msg(e, p) \in ToSet(channel') PROVE FALSE
  <2>1. Msg(e, p) \notin Replies
    BY Fields DEF Streams, Answers
  <2>2. PICK d \in Streams : Msg(e, p) = Msg(d, forward[d].proof) /\ InFlight(forward[d].proof)
    BY <1>2, <2>1, ChannelStep
  <2>3. p = forward[d].proof
    BY <2>2, Fields
  <2> QED
    BY <2>2, <2>3
<1> QED
  BY <1>1, <1>2

(* The loop and the inbox: what a step does to the set, the inbox and the  *)
(* loop's position, as far as one proof goes.                              *)
LEMMA RequestStep ==
  ASSUME Typed, Next, NEW p
  PROVE  /\ p \in localSubs /\ p \notin localSubs' => main.at = "remove" /\ main.proof = p
         /\ p \notin localSubs /\ p \in localSubs' => main.at = "insert" /\ main.proof = p
         /\ main'.at = "insert" /\ main'.proof = p =>
              (main.at = "insert" /\ main.proof = p) \/ Msg("subscribe", p) \in ToSet(inbox)
         /\ main'.at = "remove" /\ main'.proof = p =>
              (main.at = "remove" /\ main.proof = p) \/ Msg("unsubscribe", p) \in ToSet(inbox)
         /\ \A t : Msg(t, p) \in ToSet(inbox') =>
              Msg(t, p) \in ToSet(inbox) \/ \E m \in ClientMessages : ClientSend(m) /\ m = Msg(t, p)
<1>1. \A m \in ClientMessages : ToSet(Append(inbox, m)) = ToSet(inbox) \cup {m}
  BY InboxFacts
<1>2. /\ ToSet(<<>>) = {}
      /\ inbox # <<>> => /\ ToSet(inbox) = {Head(inbox)} \cup ToSet(Tail(inbox))
                         /\ Head(inbox) \in ClientMessages
  BY InboxFacts
<1>3. main = [at |-> main.at, proof |-> main.proof, reply |-> main.reply]
  BY DEF Typed
<1>4. ASSUME NEW m \in ClientMessages, ClientSend(m)
      PROVE  UNCHANGED <<localSubs, main>> /\ ToSet(inbox') = ToSet(inbox) \cup {m}
  BY <1>1, <1>4 DEF ClientSend, mainVars
<1>5. CASE UNCHANGED <<localSubs, main, inbox>>
  BY <1>5
<1>6. CASE Receive
  <2> DEFINE m == Head(inbox)
  <2>1. /\ m \in ClientMessages /\ m \in ToSet(inbox) /\ ToSet(inbox') \subseteq ToSet(inbox)
        /\ UNCHANGED localSubs
    BY <1>2, <1>6 DEF Receive
  <2>2. /\ main'.at \in {"insert", "remove"} => main'.proof = m.proof
        /\ main'.at = "insert" => m.type = "subscribe"
        /\ main'.at = "remove" => m.type = "unsubscribe"
    BY <1>6 DEF Receive, AfterSubscribe
  <2>3. m.type \in {"subscribe", "unsubscribe"} => m = Msg(m.type, m.proof)
    BY <2>1, ClientMessageFacts
  <2> HIDE DEF m
  <2> QED
    BY <2>1, <2>2, <2>3
<1>7. CASE RateLimit \/ StreamEnds
  <2>1. ToSet(inbox') \subseteq ToSet(inbox) /\ UNCHANGED localSubs /\ main'.at \in {"last", "cleanup"}
    <3>1. CASE RateLimit
      BY <1>2, <3>1 DEF RateLimit
    <3>2. CASE StreamEnds
      BY <1>2, <3>2, Fields DEF StreamEnds
    <3> QED
      BY <1>7, <3>1, <3>2
  <2> QED
    BY <2>1
<1>8. CASE UpdateLocal
  <2>1. main'.at = "reply" /\ UNCHANGED inbox
    BY <1>3, <1>8 DEF UpdateLocal, clientVars
  <2> QED
    BY <1>8, <2>1 DEF UpdateLocal
<1>9. CASE Reply \/ Cleanup \/ Cancel
  <2>1. UNCHANGED <<inbox, localSubs>> /\ main'.at \in {"wait", "cleanup", "cancel", "done"}
    <3>1. CASE Reply
      BY <3>1, Fields DEF Reply, clientVars
    <3>2. CASE Cleanup
      BY <3>2, Fields DEF Cleanup, clientVars
    <3>3. CASE Cancel
      BY <3>3, Fields DEF Cancel, clientVars
    <3> QED
      BY <1>9, <3>1, <3>2, <3>3
  <2> QED
    BY <2>1
<1>10. (\E m \in ClientMessages : ClientSend(m)) \/ Loop \/ UNCHANGED <<localSubs, main, inbox>>
  BY DEF Next, HangUp, Broadcast, Task, TakeEvent, Check, Forward, StopForwarding, SendToClient,
         StopSending, clientVars, mainVars
<1> QED
  BY <1>4, <1>5, <1>6, <1>7, <1>8, <1>9, <1>10 DEF Loop

(* The client learns what is so when it reads a settled answer, and asks   *)
(* itself before anything else changes it.                                 *)
LEMMA KnowsStep ==
  ASSUME IInv, Next
  PROVE  /\ \A p \in listening' : KnowsSubscribed(p)'
         /\ \A p \in quiet' : KnowsUnsubscribed(p)'
<1>1. Typed /\ Position /\ \A p \in Ids : Told(p)
  BY DEF IInv
<1>2. ASSUME NEW p \in listening', p \in listening PROVE KnowsSubscribed(p)'
  <2>1. KnowsSubscribed(p)
    BY <1>2 DEF IInv
  <2>2. ASSUME NEW m \in ClientMessages, ClientSend(m), m = Msg("unsubscribe", p) PROVE FALSE
    <3>1. m.type = "unsubscribe" /\ m.proof = p
      BY <2>2, Fields
    <3> QED
      BY <1>2, <2>2, <3>1 DEF ClientSend
  <2> QED
    BY <1>1, <2>1, <2>2, RequestStep DEF KnowsSubscribed
<1>3. ASSUME NEW p \in quiet', p \in quiet PROVE KnowsUnsubscribed(p)'
  <2>1. KnowsUnsubscribed(p)
    BY <1>3 DEF IInv
  <2>2. ASSUME NEW m \in ClientMessages, ClientSend(m), m = Msg("subscribe", p) PROVE FALSE
    <3>1. m.type = "subscribe" /\ m.proof = p
      BY <2>2, Fields
    <3> QED
      BY <1>3, <2>2, <3>1 DEF ClientSend
  <2>3. ~InFlight(p)' /\ \A e \in Streams : Msg(e, p) \notin ToSet(channel')
    BY <1>1, <2>1, SilenceStep DEF KnowsUnsubscribed
  <2>4. /\ p \notin localSubs' /\ Msg("subscribe", p) \notin ToSet(inbox')
        /\ ~(main'.at = "insert" /\ main'.proof = p)
    BY <1>1, <2>1, <2>2, RequestStep DEF KnowsUnsubscribed
  <2> QED
    BY <2>3, <2>4 DEF KnowsUnsubscribed
<1>4. /\ \/ listening' \subseteq listening /\ quiet' \subseteq quiet
         \/ SendToClient
  BY DEF Next, ClientSend, HangUp, Broadcast, Loop, Receive, RateLimit, UpdateLocal, Reply,
         StreamEnds, Cleanup, Cancel, Task, TakeEvent, Check, Forward, StopForwarding,
         StopSending, clientVars
<1>5. CASE SendToClient
  <2> DEFINE m == Head(channel)
  <2>1. /\ channel \in Seq(Messages) /\ channel # <<>> /\ channel' = Tail(channel)
        /\ UNCHANGED <<main, localSubs, inbox, forward>>
    BY <1>1, <1>5 DEF SendToClient, Typed, mainVars, taskVars
  <2>2. m \in Messages /\ m = channel[1] /\ m.proof \in Ids
    BY <2>1, TailFacts, Fields
  <2>3. /\ \A p \in listening' : p \in listening \/ (m.type = "subscribed" /\ m.proof = p /\ Settled(p))
        /\ \A p \in quiet' : p \in quiet \/ (m.type = "unsubscribed" /\ m.proof = p /\ Settled(p))
    BY <1>5 DEF SendToClient
  <2>4. main.at = "reply" /\ main.reply.type \in Answers => main.reply.proof = main.proof
    BY <1>1 DEF Position, ReplyShape
  <2>5. ASSUME NEW p, m.type \in {"subscribed", "unsubscribed"}, m.proof = p, Settled(p)
        PROVE  /\ LastAnswer(channel, 1, p) /\ main.proof # p /\ \A t : Msg(t, p) \notin ToSet(inbox)
               /\ ~Replying("subscribed", p) /\ ~Replying("unsubscribed", p)
               /\ Told(p) /\ 1 \in DOMAIN channel
    <3>1. LastAnswer(channel, 1, p) /\ main.proof # p /\ \A t : Msg(t, p) \notin ToSet(inbox)
      BY <1>1, <2>1, <2>5, SettledLast DEF Answer
    <3>2. ~Replying("subscribed", p) /\ ~Replying("unsubscribed", p)
      BY <2>4, <3>1, Fields DEF Replying, Answers
    <3>3. Told(p) /\ 1 \in DOMAIN channel
      BY <1>1, <2>2, <2>5, <3>1 DEF LastAnswer
    <3> QED
      BY <3>1, <3>2, <3>3
  <2> HIDE DEF m
  <2>6. ASSUME NEW p \in listening', p \notin listening PROVE KnowsSubscribed(p)'
    <3>1. m.type = "subscribed" /\ m.proof = p /\ Settled(p)
      BY <2>3, <2>6
    <3>2. p \in localSubs
      BY <2>2, <2>5, <3>1 DEF Told, ToldSubscribed
    <3> QED
      BY <2>1, <2>5, <3>1, <3>2 DEF KnowsSubscribed
  <2>7. ASSUME NEW p \in quiet', p \notin quiet PROVE KnowsUnsubscribed(p)'
    <3>1. m.type = "unsubscribed" /\ m.proof = p /\ Settled(p)
      BY <2>3, <2>7
    <3>2. p \notin localSubs /\ ~InFlight(p) /\ QuietFrom(channel, 1, p)
      BY <2>2, <2>5, <3>1 DEF Told, ToldUnsubscribed
    <3>3. ASSUME NEW e \in Streams, Msg(e, p) \in ToSet(Tail(channel)) PROVE FALSE
      <4>1. PICK j \in DOMAIN Tail(channel) : Tail(channel)[j] = Msg(e, p)
        BY <3>3 DEF ToSet
      <4>2. j \in Nat /\ j + 1 \in DOMAIN channel /\ channel[j + 1] = Msg(e, p)
            /\ (j + 1 = 1 \/ j + 1 > 1)
        BY <2>1, <4>1, TailFacts
      <4>3. Event(Msg(e, p), p) /\ ~Answer(Msg(e, p), p)
        BY Fields DEF Event, Answer, Streams
      <4>4. j + 1 # 1
        BY <2>5, <3>1, <4>2, <4>3 DEF LastAnswer
      <4> QED
        BY <3>2, <4>2, <4>3, <4>4 DEF QuietFrom
    <3>4. ~InFlight(p)'
      BY <2>1, <3>2 DEF InFlight
    <3>5. \A e \in Streams : Msg(e, p) \notin ToSet(channel')
      BY <2>1, <3>3
    <3> QED
      BY <2>1, <2>5, <3>1, <3>2, <3>4, <3>5 DEF KnowsUnsubscribed
  <2> QED
    BY <1>2, <1>3, <2>6, <2>7
<1> QED
  BY <1>2, <1>3, <1>4, <1>5

-----------------------------------------------------------------------------
(* The confirmations *)

(* A connection that is over stays over, and a task stops no sooner.       *)
LEMMA EndedStep ==
  ASSUME IInv, Next
  PROVE  /\ Ended => Ended'
         /\ \A e \in Streams : forward[e].at = "done" => Ended
         /\ ~sending => Ended
         /\ StopSending => Ended
<1>1. /\ cancelled => main.at = "done"
      /\ ~sending => cancelled \/ hungUp
      /\ \A e \in Streams : forward[e].at = "done" => cancelled \/ ~sending
  BY DEF IInv, Position, Ends
<1>2. (cancelled \/ ~sending => Ended) /\ (StopSending => Ended)
  BY <1>1 DEF Ended, StopSending
<1>3. hungUp => hungUp'
  BY DEF Next, ClientSend, HangUp, Broadcast, Loop, Receive, RateLimit, UpdateLocal, Reply,
         StreamEnds, Cleanup, Cancel, Task, TakeEvent, Check, Forward, StopForwarding,
         SendToClient, StopSending, clientVars
<1>4. ASSUME main.at \in {"last", "cleanup", "cancel", "done"}
      PROVE  main'.at \in {"last", "cleanup", "cancel", "done"}
  <2>1. CASE Loop
    <3>1. CASE Reply
      BY <1>4, <3>1, Fields DEF Reply
    <3>2. CASE Cleanup
      BY <3>2, Fields DEF Cleanup
    <3>3. CASE Cancel
      BY <3>3, Fields DEF Cancel
    <3> QED
      BY <1>4, <2>1, <3>1, <3>2, <3>3 DEF Loop, Receive, RateLimit, UpdateLocal, StreamEnds
  <2>2. Loop \/ UNCHANGED main
    BY DEF Next, ClientSend, HangUp, Broadcast, Task, TakeEvent, Check, Forward, StopForwarding,
           SendToClient, StopSending, mainVars
  <2> QED
    BY <1>4, <2>1, <2>2
<1> QED
  BY <1>1, <1>2, <1>3, <1>4 DEF Ended

(* A step that leaves a confirmation where it is, or hands it on           *)
LEMMA LocatedStep ==
  ASSUME IInv, Next, NEW p \in owed, Located(p)
  PROVE  Located(p)'
<1>1. /\ forward \in [Streams -> [at : TaskSteps, proof : Ids]]
      /\ events \in [Streams -> Seq(Proofs)] /\ channel \in Seq(Messages)
      /\ "confirmed" \in Streams /\ main.reply \in Messages
      /\ \A e \in Streams : Msg(e, forward[e].proof) \in Messages
  BY Fields DEF IInv, Typed, TaskSteps, Streams
<1>2. p \in localSubs
  BY DEF IInv, KnowsSubscribed
<1>3. CASE Ended
  BY <1>3, EndedStep DEF Located
<1>4. ASSUME got \subseteq got', missed \subseteq missed', events'["confirmed"] = events["confirmed"],
             ToSet(channel) \subseteq ToSet(channel'), forward'["confirmed"] = forward["confirmed"]
      PROVE  Located(p)'
  BY <1>3, <1>4 DEF Located
<1>5. CASE UNCHANGED <<got, missed, events, channel, forward>>
  BY <1>4, <1>5
<1>6. ASSUME NEW e \in Streams, NEW q \in Proofs, Broadcast(e, q) PROVE Located(p)'
  <2> DEFINE kept == IF Len(events[e]) = MaxLag THEN Tail(events[e]) ELSE events[e]
  <2>1. UNCHANGED <<got, channel, forward>> /\ missed \subseteq missed'
    BY <1>6 DEF Broadcast, clientVars, taskVars
  <2>2. CASE forward[e].at = "done"
    BY <1>3, <2>2, EndedStep
  <2>3. CASE forward[e].at # "done" /\ e = "confirmed"
    <3>1. events[e] \in Seq(Proofs) /\ kept \in Seq(Proofs)
      BY <1>1, SessionAssumption
    <3>2. events' = [events EXCEPT ![e] = Append(kept, q)]
      BY <1>6, <2>3 DEF Broadcast
    <3>3. ToSet(events'[e]) = ToSet(kept) \cup {q}
      <4> HIDE DEF kept
      <4>1. ToSet(Append(kept, q)) = ToSet(kept) \cup {q}
        BY <3>1, AppendFacts
      <4> QED
        BY <1>1, <3>2, <4>1
    <3>4. ToSet(events[e]) \subseteq ToSet(kept) \cup missed'
      <4>1. CASE Len(events[e]) = MaxLag
        <5>1. events[e] # <<>>
          BY <4>1, SessionAssumption
        <5>2. ToSet(events[e]) = {Head(events[e])} \cup ToSet(Tail(events[e]))
          BY <3>1, <5>1, TailFacts
        <5>3. Head(events[e]) \in missed'
          BY <1>6, <2>3, <4>1 DEF Broadcast
        <5> QED
          BY <4>1, <5>2, <5>3
      <4>2. CASE Len(events[e]) # MaxLag
        BY <4>2
      <4> QED
        BY <4>1, <4>2
    <3> HIDE DEF kept
    <3> QED
      BY <1>3, <2>1, <2>3, <3>3, <3>4 DEF Located
  <2>4. CASE forward[e].at # "done" /\ e # "confirmed"
    <3>1. events'["confirmed"] = events["confirmed"]
      BY <1>1, <1>6, <2>4 DEF Broadcast
    <3> QED
      BY <1>4, <2>1, <3>1
  <2> QED
    BY <2>2, <2>3, <2>4
<1>7. CASE Reply
  <2>1. UNCHANGED <<got, missed, events, forward>>
    BY <1>7 DEF Reply, clientVars, eventVars, taskVars
  <2>2. ToSet(channel) \subseteq ToSet(channel')
    <3>1. ToSet(Append(channel, main.reply)) = ToSet(channel) \cup {main.reply}
      BY <1>1, AppendFacts
    <3> QED
      BY <1>7, <3>1 DEF Reply
  <2> QED
    BY <1>4, <2>1, <2>2
<1>8. ASSUME NEW e \in Streams, Task(e), e # "confirmed" PROVE Located(p)'
  <2>1. UNCHANGED <<got, missed>>
    BY <1>8 DEF Task, TakeEvent, Check, Forward, StopForwarding, clientVars, eventVars
  <2>2. events'["confirmed"] = events["confirmed"] /\ forward'["confirmed"] = forward["confirmed"]
    BY <1>1, <1>8 DEF Task, TakeEvent, Check, Forward, StopForwarding, eventVars
  <2>3. ToSet(channel) \subseteq ToSet(channel')
    <3>1. ToSet(Append(channel, Msg(e, forward[e].proof))) = ToSet(channel) \cup {Msg(e, forward[e].proof)}
      BY <1>1, AppendFacts
    <3> QED
      BY <1>8, <3>1 DEF Task, TakeEvent, Check, Forward, StopForwarding
  <2> QED
    BY <1>4, <2>1, <2>2, <2>3
<1>9. CASE TakeEvent("confirmed")
  <2> DEFINE q == events["confirmed"]
  <2>1. q \in Seq(Proofs) /\ q # <<>> /\ UNCHANGED <<got, missed, channel>>
    BY <1>1, <1>9 DEF TakeEvent, clientVars
  <2>2. forward'["confirmed"] = [at |-> "check", proof |-> Head(q)] /\ events'["confirmed"] = Tail(q)
    BY <1>1, <1>9 DEF TakeEvent
  <2>3. ToSet(q) = {Head(q)} \cup ToSet(Tail(q))
    BY <2>1, TailFacts
  <2>4. forward["confirmed"].at = "recv"
    BY <1>9 DEF TakeEvent
  <2> HIDE DEF q
  <2>5. p \in got \cup missed \cup ToSet(q) \/ Msg("confirmed", p) \in ToSet(channel) \/ Ended
    BY <2>4 DEF Located, q
  <2> QED
    BY <1>3, <2>1, <2>2, <2>3, <2>5 DEF Located
<1>10. CASE Check("confirmed")
  <2>1. UNCHANGED <<got, missed, channel, events>> /\ forward["confirmed"].at = "check"
    BY <1>10 DEF Check, clientVars, eventVars
  <2>2. CASE forward["confirmed"].proof = p
    <3>1. forward' = [forward EXCEPT !["confirmed"] = [forward["confirmed"] EXCEPT !.at = "send"]]
      BY <1>2, <1>10, <2>2 DEF Check
    <3>2. forward'["confirmed"].at = "send" /\ forward'["confirmed"].proof = p
      BY <1>1, <2>2, <3>1
    <3> QED
      BY <3>2 DEF Located
  <2>3. CASE forward["confirmed"].proof # p
    BY <1>3, <2>1, <2>3 DEF Located
  <2> QED
    BY <2>2, <2>3
<1>11. CASE Forward("confirmed")
  <2>1. CASE ~sending
    BY <1>3, <2>1, EndedStep
  <2>2. CASE sending
    <3>1. /\ UNCHANGED <<got, missed, events>>
          /\ channel' = Append(channel, Msg("confirmed", forward["confirmed"].proof))
      BY <1>11, <2>2 DEF Forward, clientVars, eventVars
    <3>2. ToSet(channel') = ToSet(channel) \cup {Msg("confirmed", forward["confirmed"].proof)}
      BY <1>1, <3>1, AppendFacts
    <3> QED
      BY <1>3, <3>1, <3>2 DEF Located
  <2> QED
    BY <2>1, <2>2
<1>12. CASE StopForwarding("confirmed")
  <2>1. UNCHANGED <<got, missed, events, channel>> /\ forward["confirmed"].at = "recv"
    BY <1>12 DEF StopForwarding, clientVars, eventVars
  <2> QED
    BY <1>3, <2>1 DEF Located
<1>13. CASE SendToClient
  <2>1. /\ UNCHANGED <<missed, events, forward>> /\ channel # <<>> /\ channel' = Tail(channel)
        /\ got \subseteq got' /\ (Head(channel).type = "confirmed" => Head(channel).proof \in got')
    BY <1>13 DEF SendToClient, taskVars, eventVars
  <2>2. ToSet(channel) = {Head(channel)} \cup ToSet(channel')
    BY <1>1, <2>1, TailFacts
  <2>3. CASE Msg("confirmed", p) = Head(channel)
    <3>1. p \in got'
      BY <2>1, <2>3, Fields
    <3> QED
      BY <3>1 DEF Located
  <2>4. CASE Msg("confirmed", p) # Head(channel)
    BY <1>3, <2>1, <2>2, <2>4 DEF Located
  <2> QED
    BY <2>3, <2>4
<1>14. CASE StopSending
  BY <1>3, <1>14, EndedStep
<1>15. \/ UNCHANGED <<got, missed, events, channel, forward>>
       \/ \E e \in Streams, q \in Proofs : Broadcast(e, q)
       \/ Reply \/ SendToClient \/ StopSending
       \/ \E e \in Streams : Task(e)
  BY DEF Next, ClientSend, HangUp, Loop, Receive, RateLimit, UpdateLocal, StreamEnds, Cleanup,
         Cancel, clientVars, eventVars, taskVars
<1>16. \A e \in Streams : Task(e) => \/ e # "confirmed"
                                    \/ TakeEvent("confirmed") \/ Check("confirmed")
                                    \/ Forward("confirmed") \/ StopForwarding("confirmed")
  BY DEF Task
<1> QED
  BY <1>5, <1>6, <1>7, <1>8, <1>9, <1>10, <1>11, <1>12, <1>13, <1>14, <1>15, <1>16

(* What is owed stays with what the client listens to, and is somewhere.   *)
LEMMA OwedStep ==
  ASSUME IInv, Next
  PROVE  owed' \subseteq listening' /\ \A p \in owed' : Located(p)'
<1>1. owed \subseteq listening /\ \A p \in owed : Located(p)
  BY DEF IInv
<1>2. \A p \in owed : Located(p)'
  BY <1>1, LocatedStep
<1>3. ASSUME NEW e \in Streams, NEW p \in Proofs, Broadcast(e, p)
      PROVE  owed' \subseteq listening' /\ \A q \in owed' : Located(q)'
  <2>1. owed' \subseteq owed \cup {p} /\ listening' = listening
        /\ (p \in owed' /\ p \notin owed => e = "confirmed" /\ p \in listening)
    BY <1>3 DEF Broadcast, clientVars
  <2>2. ASSUME e = "confirmed" PROVE Located(p)'
    <3>1. CASE forward[e].at = "done"
      BY <3>1, EndedStep DEF Located
    <3>2. CASE forward[e].at # "done"
      <4> DEFINE kept == IF Len(events[e]) = MaxLag THEN Tail(events[e]) ELSE events[e]
      <4>1. events \in [Streams -> Seq(Proofs)] /\ events[e] \in Seq(Proofs)
        BY DEF IInv, Typed
      <4>2. kept \in Seq(Proofs) /\ events' = [events EXCEPT ![e] = Append(kept, p)]
        BY <1>3, <3>2, <4>1, SessionAssumption DEF Broadcast
      <4> HIDE DEF kept
      <4>3. p \in ToSet(Append(kept, p))
        BY <4>2, AppendFacts
      <4> QED
        BY <2>2, <4>1, <4>2, <4>3 DEF Located
    <3> QED
      BY <3>1, <3>2
  <2> QED
    BY <1>1, <1>2, <2>1, <2>2
<1>4. ASSUME NEW m \in ClientMessages, ClientSend(m) PROVE owed' \subseteq listening' /\ owed' \subseteq owed
  BY <1>1, <1>4 DEF ClientSend
<1>5. \/ \E e \in Streams, p \in Proofs : Broadcast(e, p)
      \/ \E m \in ClientMessages : ClientSend(m)
      \/ owed' = owed /\ listening \subseteq listening'
  BY DEF Next, HangUp, Loop, Receive, RateLimit, UpdateLocal, Reply, StreamEnds, Cleanup,
         Cancel, Task, TakeEvent, Check, Forward, StopForwarding, SendToClient, StopSending,
         clientVars, eventVars
<1> QED
  BY <1>1, <1>2, <1>3, <1>4, <1>5

-----------------------------------------------------------------------------
(* The theorems *)

(* The invariant holds at first.                                           *)
LEMMA InitIInv == Init => IInv
<1> SUFFICES ASSUME Init PROVE IInv
  OBVIOUS
<1>1. /\ main = Waiting /\ main.at = "wait" /\ registered = {} /\ localSubs = {} /\ count = 0
      /\ channel = <<>> /\ sending /\ ~cancelled
      /\ \A e \in Streams : forward[e].at = "recv"
      /\ listening = {} /\ quiet = {} /\ owed = {}
  BY Fields DEF Init
<1>2. Typed
  BY InitTyped
<1>3. Position
  <2>1. Cardinality(registered) <= count
    BY <1>1, FS_EmptySet
  <2> QED
    BY <1>1, <2>1 DEF Position, ReplyShape, Books, Ends
<1>4. ASSUME NEW p PROVE Told(p)
  BY <1>1 DEF Told, ToldSubscribed, ToldUnsubscribed, Replying
<1> QED
  BY <1>1, <1>2, <1>3, <1>4 DEF IInv

(* The invariant: every state of the session satisfies it.                 *)
THEOREM Inductive == Spec => []IInv
<1>1. ASSUME IInv, [Next]_vars PROVE IInv'
  <2>1. CASE Next
    <3>1. Typed'
      BY <1>1, <2>1, TypedStep DEF IInv
    <3>2. Position'
      BY <1>1, <2>1, PositionStep DEF IInv
    <3>3. \A p \in Ids : Told(p)'
      BY <1>1, <2>1, ToldStep DEF IInv
    <3>4. /\ \A p \in listening' : KnowsSubscribed(p)'
          /\ \A p \in quiet' : KnowsUnsubscribed(p)'
      BY <1>1, <2>1, KnowsStep
    <3>5. owed' \subseteq listening' /\ \A p \in owed' : Located(p)'
      BY <1>1, <2>1, OwedStep
    <3> QED
      BY <3>1, <3>2, <3>3, <3>4, <3>5 DEF IInv, Ids
  <2>2. CASE UNCHANGED vars
    <3>1. UNCHANGED <<inbox, hungUp, main, registered, count, localSubs, events, forward,
                      channel, sending, cancelled, got, missed, listening, quiet, owed>>
      BY <2>2 DEF vars, clientVars, mainVars, taskVars, eventVars
    <3>2. Typed' /\ Position'
      BY <1>1, <3>1 DEF IInv, Typed, Position, ReplyShape, Books, Ends
    <3>3. ASSUME NEW p PROVE /\ Replying("subscribed", p)' <=> Replying("subscribed", p)
                             /\ Replying("unsubscribed", p)' <=> Replying("unsubscribed", p)
                             /\ InFlight(p)' <=> InFlight(p)
      BY <3>1 DEF Replying, InFlight
    <3>4. \A p \in Ids : Told(p)'
      BY <1>1, <3>1, <3>3 DEF IInv, Told, ToldSubscribed, ToldUnsubscribed
    <3>5. \A p \in listening' : KnowsSubscribed(p)'
      BY <1>1, <3>1 DEF IInv, KnowsSubscribed
    <3>6. \A p \in quiet' : KnowsUnsubscribed(p)'
      BY <1>1, <3>1, <3>3 DEF IInv, KnowsUnsubscribed
    <3>7. owed' \subseteq listening' /\ \A p \in owed' : Located(p)'
      BY <1>1, <3>1 DEF IInv, Located, Ended
    <3> QED
      BY <3>2, <3>4, <3>5, <3>6, <3>7 DEF IInv, Ids
  <2> QED
    BY <1>1, <2>1, <2>2
<1> QED
  BY <1>1, InitIInv, PTL DEF Spec

(* Between two client messages the session's own set, which decides what   *)
(* is forwarded, is what the registry holds for it, and the session is     *)
(* never charged for fewer.                                                *)
THEOREM RegistryAgreesHolds == Spec => []RegistryAgrees
<1>1. IInv => RegistryAgrees
  BY DEF IInv, Position, Books, RegistryAgrees
<1> QED
  BY <1>1, Inductive, PTL

(* A confirmation broadcast while the client listens reaches it or is on   *)
(* its way, unless the session lagged, the client unsubscribed since or    *)
(* the connection is over.                                                 *)
THEOREM NoConfirmationLostHolds == Spec => []NoConfirmationLost
<1>1. IInv => NoConfirmationLost
  BY DEF IInv, Located, NoConfirmationLost
<1> QED
  BY <1>1, Inductive, PTL

(* After the client has been told "unsubscribed" it is sent no event about *)
(* the proof until it subscribes again.                                    *)
THEOREM QuietHolds == Spec => QuietAfterUnsubscribed
<1> DEFINE Quiet == SendToClient => ~(Head(channel).type \in Streams /\ Head(channel).proof \in quiet)
<1>1. ASSUME IInv, [Next]_vars PROVE [Quiet]_vars
  <2>1. SUFFICES ASSUME SendToClient, Head(channel).type \in Streams, Head(channel).proof \in quiet
                 PROVE  FALSE
    BY DEF Quiet
  <2> DEFINE m == Head(channel)
  <2>2. channel \in Seq(Messages) /\ channel # <<>>
    BY <1>1, <2>1 DEF IInv, Typed, SendToClient
  <2>3. m \in ToSet(channel) /\ m \in Messages
    BY <2>2, TailFacts
  <2>4. m = Msg(m.type, m.proof)
    BY <2>3, Fields
  <2>5. KnowsUnsubscribed(m.proof)
    BY <1>1, <2>1 DEF IInv
  <2> HIDE DEF m
  <2>6. m.type \in Streams
    BY <2>1 DEF m
  <2> QED
    BY <2>3, <2>4, <2>5, <2>6 DEF KnowsUnsubscribed
<1> QED
  BY <1>1, Inductive, PTL DEF Spec, QuietAfterUnsubscribed
=============================================================================
