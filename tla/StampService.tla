---------------------------- MODULE StampService ----------------------------
(***************************************************************************)
(* What the calendar promises about each stamp, with queues, batches and   *)
(* tasks left out: a stamp is pending from its submission, is committed to *)
(* the chain while it is pending, is called confirmed and given its        *)
(* attestation only after that, and neither ever goes back or changes.     *)
(***************************************************************************)
CONSTANTS Stamps, None   \* None: no attestation

VARIABLES
  status,     \* status[s]: what the stamps table says, "unknown" without a row
  anchored,   \* stamps covered by some commitment on the chain
  attestation \* attestation[s]: the Kaspa attestation of its stored proof

serviceVars == <<status, anchored, attestation>>

Init ==
  /\ status = [s \in Stamps |-> "unknown"]
  /\ anchored = {}
  /\ attestation = [s \in Stamps |-> None]

Submit(s) ==
  /\ status[s] = "unknown" /\ s \notin anchored
  /\ status' = [status EXCEPT ![s] = "pending"]
  /\ UNCHANGED <<anchored, attestation>>

(* A submission turned away for lack of room leaves no trace. *)
Refuse(s) ==
  /\ status[s] = "pending" /\ s \notin anchored
  /\ status' = [status EXCEPT ![s] = "unknown"]
  /\ UNCHANGED <<anchored, attestation>>

(* One commitment covers a whole batch; a batch may be committed again     *)
(* when its first commitment was not seen to succeed.                      *)
Anchor(batch) ==
  /\ batch # {}
  /\ \A s \in batch : status[s] = "pending" /\ attestation[s] = None
  /\ anchored' = anchored \cup batch
  /\ UNCHANGED <<status, attestation>>

Confirm(s) ==
  /\ status[s] = "pending" /\ s \in anchored
  /\ status' = [status EXCEPT ![s] = "confirmed"]
  /\ UNCHANGED <<anchored, attestation>>

Attest(s) ==
  /\ status[s] # "unknown" /\ s \in anchored /\ attestation[s] = None
  /\ attestation'[s] # None
  /\ attestation' = [attestation EXCEPT ![s] = attestation'[s]]
  /\ UNCHANGED <<status, anchored>>

(* Confirmed stamps are kept for a limited time. *)
Expire(s) ==
  /\ status[s] = "confirmed"
  /\ status' = [status EXCEPT ![s] = "unknown"]
  /\ attestation' = [attestation EXCEPT ![s] = None]
  /\ UNCHANGED anchored

Next ==
  \/ \E s \in Stamps : Submit(s) \/ Refuse(s) \/ Confirm(s) \/ Attest(s) \/ Expire(s)
  \/ \E batch \in SUBSET Stamps : Anchor(batch)

Spec == Init /\ [][Next]_serviceVars

=============================================================================
