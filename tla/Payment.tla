------------------------------- MODULE Payment -------------------------------
(***************************************************************************)
(* From coins to a transaction the node takes: module Funding decides what *)
(* is paid; here the addresses are turned into scripts, the inputs are     *)
(* signed, and the transaction is written for the node.  A coin's script   *)
(* comes from the node with two bytes of version in front, which the core  *)
(* client and the browser take off each in its own way, and goes back in   *)
(* the same form.  The wallets are those of KaspaService::new: the key     *)
(* decides, whatever address the configuration names.                      *)
(*                                                                         *)
(* Signing and writing do not wait, so Submit is one step.  The order of   *)
(* the inputs is the one the coins were taken in, and the configuration    *)
(* plays no part before: both are chosen by Submit.                        *)
(***************************************************************************)
EXTENDS Funding, Addresses, Sighash, SequencesExt

CONSTANTS
  Network,      \* of the addresses
  Commitment,   \* the bytes that are stamped
  StampKey,     \* public key of the wallet that pays for stamps, or the user's
  ReturnKey,    \* public key of the wallet that gets the change
  StaleKey      \* public key of a wallet the configuration still names

ASSUME PaymentAssumption ==
  /\ Network \in Networks
  /\ StampKey # ReturnKey
  /\ \A key \in {Commitment, StampKey, ReturnKey, StaleKey} :
       key \in Seq(0..255) /\ Len(key) = KeyLength

VARIABLES
  service,   \* the calendar's wallets
  sent       \* the transaction as the node gets it

paymentVars == <<caller, rate, amount, coins, taken, total, phase, tx, service, sent>>

NoService == [wallet |-> <<>>, return_wallet |-> <<>>, wallet_address |-> <<>>]
NotSent == [inputs |-> <<>>, outputs |-> <<>>]

PaymentInit == Init /\ service = NoService /\ sent = NotSent

-----------------------------------------------------------------------------
(* Wallets; an address is written as the key it was made from. *)

ScriptOf ==
  [key \in {StampKey, ReturnKey, StaleKey} |-> AddressToScript(EncodeAddress(key, Network))]

(* KaspaService::new: the address derived from the key replaces the one    *)
(* configured, and the two wallets differ.  The slip believes the          *)
(* configuration.                                                          *)
NewServiceConfigured(return_key, configured) ==
  [wallet |-> StampKey, return_wallet |-> return_key,
   wallet_address |-> configured]
NewService(return_key, configured) ==
  [wallet |-> StampKey, return_wallet |-> return_key,
   wallet_address |-> StampKey]

(* Without a return wallet its key is empty.  The recycle service runs     *)
(* only with one; the other programs have a single key.                    *)
Services ==
  CASE caller = "calendar" -> {NewService(key, old) : key \in {<<>>, ReturnKey}, old \in {StampKey, StaleKey}}
    [] caller = "recycle" -> {NewService(ReturnKey, old) : old \in {StampKey, StaleKey}}
    [] OTHER -> {NewService(<<>>, StampKey)}

SigningKey(s) == IF caller = "recycle" THEN s.return_wallet ELSE s.wallet

(* get_change_address, the destination of a recycling transfer, and the    *)
(* user's own address                                                      *)
PayeeAddress(s) ==
  IF caller = "calendar" /\ s.return_wallet # <<>> THEN s.return_wallet
  ELSE s.wallet_address

-----------------------------------------------------------------------------
(* Scripts on the wire *)

WireScript(version, script) == <<version \div 256, version % 256>> \o script

(* The core client reads the version low byte first, the browser drops it. *)
CoreScript(wire) == [version |-> wire[1] + 256 * wire[2], script |-> SubSeq(wire, 3, Len(wire))]
BrowserScript(wire) == [version |-> 0, script |-> SubSeq(wire, 3, Len(wire))]

(* The coins on chain, all paid to the key that signs *)
ChainScript(s) == PayToKey(SigningKey(s))

(* A coin as the program has it *)
Utxo(coin, s) ==
  LET wire == WireScript(0, ChainScript(s))
  IN  [outpoint |-> coin, value |-> amount[coin],
       spk |-> IF caller = "browser" THEN BrowserScript(wire) ELSE CoreScript(wire)]

-----------------------------------------------------------------------------
(* The transaction *)

Sequence == -1   \* u64::MAX
SigOpCount == 1

(* What the caller's builder put into the transaction *)
TxOutputs(s) ==
  LET commitment == [value |-> tx.burn, version |-> 0, script |-> PayToKey(Commitment)]
      change == [value |-> tx.change, version |-> 0, script |-> ScriptOf[PayeeAddress(s)]]
  IN  (IF caller = "recycle" THEN <<>> ELSE <<commitment>>)
        \o (IF tx.change = 0 THEN <<>> ELSE <<change>>)

(* The list that is signed beside the transaction, in the order of its     *)
(* inputs.  The slip hands over the list of the wallet as it is.           *)
SignerListUnsorted(order) == SetToSeq(taken)
SignerList(order) == order

(* sign_transaction of direct.rs pairs inputs and list by position; the    *)
(* browser looks each input up in all coins of the wallet.                 *)
SighashInputs(order, s) ==
  [i \in DOMAIN order |->
     LET utxo == Utxo(IF caller = "browser" THEN order[i] ELSE SignerList(order)[i], s)
     IN  [outpoint |-> order[i], version |-> utxo.spk.version, script |-> utxo.spk.script,
          value |-> utxo.value, sequence |-> Sequence, sig_op_count |-> SigOpCount]]

SighashTransaction(inputs, outputs) ==
  [version |-> 0, inputs |-> inputs, outputs |-> outputs, lock_time |-> 0,
   subnetwork_id |-> Native, gas |-> 0, payload |-> <<>>]

(* A signature is the key it was made with and the hash it was made over.  *)
Signed(order, s) ==
  LET whole == SighashTransaction(SighashInputs(order, s), TxOutputs(s))
  IN  [i \in DOMAIN order |-> [key |-> SigningKey(s), hash |-> Sighash(whole, i)]]

(* The sequence written for the node *)
WireSequence == Sequence

RpcTransaction(order, s) ==
  LET signatures == Signed(order, s)
      outputs == TxOutputs(s)
  IN  [inputs |-> [i \in DOMAIN order |->
                     [outpoint |-> order[i], signature |-> signatures[i],
                      sequence |-> WireSequence, sig_op_count |-> SigOpCount]],
       outputs |-> [o \in DOMAIN outputs |->
                     [value |-> outputs[o].value,
                      script |-> WireScript(outputs[o].version, outputs[o].script)]]]

(* Selected coins are sorted by amount, the others come as the node lists  *)
(* them.                                                                   *)
InputOrders ==
  {order \in [1..Cardinality(taken) -> taken] :
     /\ \A i, j \in DOMAIN order : i # j => order[i] # order[j]
     /\ caller \in Selecting => \A i, j \in DOMAIN order : i < j => amount[order[i]] >= amount[order[j]]}

(* An address that has no script fails the builder.                        *)
Submit ==
  /\ phase = "built" /\ sent = NotSent
  /\ \E s \in Services, order \in InputOrders :
       /\ service' = s
       /\ IF ScriptOf[PayeeAddress(s)] = <<>>
            THEN phase' = "failed" /\ UNCHANGED sent
            ELSE sent' = RpcTransaction(order, s) /\ UNCHANGED phase
  /\ UNCHANGED <<caller, rate, amount, coins, taken, total, tx>>

PaymentNext ==
  \/ Next /\ UNCHANGED <<service, sent>>
  \/ Submit

PaymentSpec == PaymentInit /\ [][PaymentNext]_paymentVars

-----------------------------------------------------------------------------

(* The transaction as the node reads it, with the coins of the chain       *)
NodeTransaction ==
  SighashTransaction(
    [i \in DOMAIN sent.inputs |->
       [outpoint |-> sent.inputs[i].outpoint, version |-> 0, script |-> ChainScript(service),
        value |-> amount[sent.inputs[i].outpoint],
        sequence |-> sent.inputs[i].sequence, sig_op_count |-> sent.inputs[i].sig_op_count]],
    [o \in DOMAIN sent.outputs |->
       LET wire == sent.outputs[o].script
       IN  [value |-> sent.outputs[o].value, version |-> 256 * wire[1] + wire[2],
            script |-> SubSeq(wire, 3, Len(wire))]])

(* Whatever way a transaction took through the program, every signature is *)
(* by the owner of the coin and over exactly what the node was sent: the   *)
(* order of inputs, the coins' scripts and amounts as they came over the   *)
(* wire, the sequences and the outputs.                                    *)
NodeTakesIt ==
  \A i \in DOMAIN sent.inputs :
    /\ sent.inputs[i].signature.hash = Sighash(NodeTransaction, i)
    /\ PayToKey(sent.inputs[i].signature.key) = ChainScript(service)

(* The keys that the program can spend with *)
HeldKeys == {StampKey} \cup (IF service.return_wallet = <<>> THEN {} ELSE {service.return_wallet})

(* No address the program makes is refused by its own decoder, and money   *)
(* that is neither burnt nor fee goes to a key the program holds: from     *)
(* the STAMP wallet to the RETURN wallet where there is one, and back.     *)
MoneyStaysHeld ==
  /\ service # NoService => phase = "built"
  /\ \A o \in DOMAIN sent.outputs :
       LET script == SubSeq(sent.outputs[o].script, 3, Len(sent.outputs[o].script))
       IN  \/ script = PayToKey(Commitment) /\ sent.outputs[o].value = Burn
           \/ \E key \in HeldKeys :
                /\ script = PayToKey(key)
                /\ service.return_wallet # <<>> => key # SigningKey(service)

=============================================================================
