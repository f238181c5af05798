------------------------------- MODULE Sighash -------------------------------
(***************************************************************************)
(* What a signature of the program is made over: compute_kaspa_sighash and *)
(* the intermediate hashes it is built from.  A keyed hash is written as   *)
(* the tuple of the fields that went into it, in their order: two hashes   *)
(* are equal when what was hashed is.  Every field is of fixed width or    *)
(* preceded by its length, so that tuples do not lose where one field ends *)
(* and the next begins.                                                    *)
(***************************************************************************)
EXTENDS Naturals, Sequences

CONSTANT Native   \* SUBNETWORK_ID_NATIVE

(* SigHashType::All, the only type the program signs with. *)
SigHashAll == 1

-----------------------------------------------------------------------------
(* The intermediate hashes *)

PreviousOutputsHash(inputs) == [i \in DOMAIN inputs |-> inputs[i].outpoint]
SequencesHash(inputs) == [i \in DOMAIN inputs |-> inputs[i].sequence]
SigOpCountsHash(inputs) == [i \in DOMAIN inputs |-> inputs[i].sig_op_count]

Hashed(output) == <<output.value, output.version, Len(output.script), output.script>>
OutputsHash(outputs) == [o \in DOMAIN outputs |-> Hashed(outputs[o])]

(* The zero hash stands for the empty payload of a native transaction. *)
ZeroHash == <<>>
PayloadHash(payload, subnetwork) ==
  IF subnetwork = Native /\ payload = <<>> THEN ZeroHash ELSE <<Len(payload), payload>>

(* Of the coins spent, only the one of the input itself is written with    *)
(* its script and its value.                                               *)
SpentHash(input) ==
  <<input.outpoint, input.version, Len(input.script), input.script, input.value,
    input.sequence, input.sig_op_count>>

Sighash(tx, i) ==
  <<tx.version,
    PreviousOutputsHash(tx.inputs), SequencesHash(tx.inputs), SigOpCountsHash(tx.inputs),
    SpentHash(tx.inputs[i]),
    OutputsHash(tx.outputs),
    tx.lock_time, tx.subnetwork_id, tx.gas,
    PayloadHash(tx.payload, tx.subnetwork_id),
    SigHashAll>>

=============================================================================
