------------------------------ MODULE ProofPage -------------------------------
(***************************************************************************)
(* The page of a stamp in the browser: it asks for the stamp every few     *)
(* seconds and, as long as it is pending, subscribes to its confirmation   *)
(* through the client of module CalendarClient.  One component instance,   *)
(* from its mount to its unmount: the proof in its address may change, and *)
(* in development each effect runs twice; each run of the effect has its   *)
(* own isMounted, here its number.  Requests and answers travel by         *)
(* themselves, so that an answer may be older than an event and may belong *)
(* to an effect that is over.  The page of a direct stamp asks nobody.     *)
(***************************************************************************)
EXTENDS CalendarClient

CONSTANT MaxEffects   \* bound on runs of the effect

None == "none"

ASSUME PageAssumption == MaxEffects \in Nat /\ None \notin Proofs

VARIABLES
  page,            \* the id in the address, None before and after
  effect,          \* number of the effect's last run
  requests,        \* getStamp calls: whose effect, of which proof, the answer
  pollTimeout,     \* the timer of the present effect is running
  isSubscribed,    \* isSubscribedRef
  unsubscribe,     \* unsubscribeRef: the proof it unsubscribes from, or None
  response,        \* what the page shows
  stampResponse,   \* what the store keeps from page to page
  answered         \* history: the present effect has heard of its proof

pageVars == <<page, effect, requests, pollTimeout, isSubscribed, unsubscribe,
              response, stampResponse, answered>>
allVars == <<clientVars, confirmed, drops, pageVars>>

Stamp(p, status) == [id |-> p, status |-> status]
NoStamp == Stamp(None, None)

(* The store may know the stamp of any proof from an earlier page. *)
PageInit ==
  /\ ClientInit
  /\ page = None /\ effect = 0 /\ requests = {} /\ pollTimeout = FALSE
  /\ isSubscribed = FALSE /\ unsubscribe = None /\ answered = FALSE
  /\ stampResponse \in {NoStamp} \cup {Stamp(p, s) : p \in Proofs, s \in {"pending", "confirmed"}}
  /\ confirmed = {p \in Proofs : stampResponse = Stamp(p, "confirmed")}
  /\ response = stampResponse

-----------------------------------------------------------------------------
(* The effect *)

Ask(p, n) == [effect |-> n, proof |-> p, answer |-> None]

(* The body of the effect: nothing is asked of a stamp the store knows to  *)
(* be confirmed.                                                           *)
RunEffect(p) ==
  /\ effect < MaxEffects
  /\ page' = p /\ effect' = effect + 1
  /\ IF stampResponse = Stamp(p, "confirmed")
       THEN response' = stampResponse /\ answered' = TRUE /\ UNCHANGED requests
       ELSE requests' = requests \cup {Ask(p, effect + 1)} /\ answered' = FALSE
            /\ UNCHANGED response

Mount(p) ==
  /\ page = None /\ effect = 0
  /\ RunEffect(p)
  /\ UNCHANGED <<clientVars, confirmed, drops, pollTimeout, isSubscribed, unsubscribe, stampResponse>>

(* What the effect returns, its cleanup *)
CleanUp ==
  /\ pollTimeout' = FALSE
  /\ unsubscribe' = None
  /\ IF unsubscribe = None THEN UNCHANGED <<clientVars, confirmed, drops, isSubscribed>>
     ELSE CallUnsubscribe(unsubscribe) /\ isSubscribed' = FALSE

(* The address changes under the page (or, to the same id, development     *)
(* mode runs the effect again).                                            *)
Navigate(p) ==
  /\ page # None
  /\ CleanUp
  /\ RunEffect(p)
  /\ UNCHANGED stampResponse

Unmount ==
  /\ page # None
  /\ CleanUp
  /\ page' = None
  /\ UNCHANGED <<effect, requests, response, stampResponse, answered>>

-----------------------------------------------------------------------------
(* fetchStamp *)

(* isMounted of the effect that asked; the slip has one for all of them.   *)
IsMountedAny(n) == page # None
IsMounted(n) == page # None /\ n = effect

Answer(r) ==
  /\ r \in requests /\ r.answer = None
  /\ requests' = (requests \ {r}) \cup
       {[r EXCEPT !.answer = IF r.proof \in confirmed THEN "confirmed" ELSE "pending"]}
  /\ UNCHANGED <<clientVars, confirmed, drops, page, effect, pollTimeout, isSubscribed,
                 unsubscribe, response, stampResponse, answered>>

(* Whether a pending stamp is asked for again.  The slip leaves the rest   *)
(* to the event once it is subscribed to it.                               *)
PollAgainUnsubscribed == ~isSubscribed
PollAgain == TRUE

(* With the answer "pending" the page subscribes, unless it has, and asks  *)
(* again later; with "confirmed" it stops asking, but stays subscribed.    *)
Receive(r) ==
  /\ r \in requests /\ r.answer # None
  /\ requests' = requests \ {r}
  /\ IF ~IsMounted(r.effect)
       THEN UNCHANGED <<clientVars, confirmed, drops, pollTimeout, isSubscribed, unsubscribe,
                        response, stampResponse, answered>>
     ELSE /\ response' = Stamp(r.proof, r.answer) /\ stampResponse' = response'
          /\ answered' = TRUE
          /\ IF r.answer = "confirmed"
               THEN /\ isSubscribed' = FALSE
                    /\ UNCHANGED <<clientVars, confirmed, drops, pollTimeout, unsubscribe>>
             ELSE /\ isSubscribed' = TRUE
                  /\ pollTimeout' = PollAgain
                  /\ IF isSubscribed
                       THEN UNCHANGED <<clientVars, confirmed, drops, unsubscribe>>
                       ELSE SubscribeToConfirmation(r.proof) /\ unsubscribe' = r.proof
  /\ UNCHANGED <<page, effect>>

(* No answer, or an error: the page asks again. *)
FetchFails(r) ==
  /\ r \in requests
  /\ requests' = requests \ {r}
  /\ pollTimeout' = (pollTimeout \/ IsMounted(r.effect))
  /\ UNCHANGED <<clientVars, confirmed, drops, page, effect, isSubscribed, unsubscribe,
                 response, stampResponse, answered>>

PollFires ==
  /\ pollTimeout /\ pollTimeout' = FALSE
  /\ requests' = requests \cup {Ask(page, effect)}
  /\ UNCHANGED <<clientVars, confirmed, drops, page, effect, isSubscribed, unsubscribe,
                 response, stampResponse, answered>>

(* A message of the socket; handleWsConfirmation when it is about the      *)
(* proof subscribed to.  The timer is left running.                        *)
Message(k) ==
  /\ OnMessage(k)
  /\ LET p == Head(sockets[k].toClient)
     IN  IF p \in subscriptions
           THEN /\ response' = Stamp(p, "confirmed") /\ stampResponse' = response'
                /\ isSubscribed' = FALSE /\ answered' = TRUE
           ELSE UNCHANGED <<response, stampResponse, isSubscribed, answered>>
  /\ UNCHANGED <<page, effect, requests, pollTimeout, unsubscribe>>

-----------------------------------------------------------------------------

PageNext ==
  \/ \E p \in Proofs : Mount(p) \/ Navigate(p)
  \/ Unmount
  \/ \E r \in requests : Answer(r) \/ Receive(r) \/ FetchFails(r)
  \/ PollFires
  \/ \E k \in SocketIds : Message(k)
  \/ ClientStep /\ UNCHANGED pageVars

PageSpec == PageInit /\ [][PageNext]_allVars

(* Connections open, messages arrive, closes are reported and timers fire, *)
(* and of the requests of a page some are answered.  Nothing obliges the   *)
(* user, the server's confirmations or the network.                        *)
Present(r) == r.effect = effect
Client(step) == step /\ UNCHANGED pageVars

FairPageSpec ==
  /\ PageSpec
  /\ WF_allVars(Client(TimerFires)) /\ WF_allVars(Client(StrayFires))
  /\ \A k \in SocketIds : /\ WF_allVars(Client(OnOpen(k))) /\ WF_allVars(Message(k))
                          /\ WF_allVars(Client(OnClose(k))) /\ WF_allVars(Client(ServerReceives(k)))
  /\ WF_allVars(PollFires)
  /\ SF_allVars(\E r \in requests : Present(r) /\ Answer(r))
  /\ SF_allVars(\E r \in requests : Present(r) /\ Receive(r))

-----------------------------------------------------------------------------

(* Whatever answers are still under way when the address changes or the    *)
(* page goes: once it has heard of its proof the page shows that proof,    *)
(* and it is subscribed to no other, and to none when it is gone.          *)
PageKeepsToItsProof ==
  /\ page # None /\ answered => response.id = page
  /\ subscriptions \subseteq {page}

(* A page that stays on a confirmed stamp shows it confirmed in the end,   *)
(* and goes on showing it: events that went to a lost connection are made  *)
(* up for, and an answer overtaken by the event does not last.             *)
ConfirmedStays ==
  \A p \in Proofs :
    <>[](page = p /\ p \in confirmed) => <>[](response = Stamp(p, "confirmed"))

=============================================================================
