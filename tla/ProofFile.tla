----------------------------- MODULE ProofFile ------------------------------
(***************************************************************************)
(* Proofs as ktcs-core makes, stores and judges them: operations, Merkle   *)
(* trees and paths, the .kts format and the verdicts of verify.rs.         *)
(*   Bytes are sequences of pieces; a piece is tagged data or a hash, and  *)
(* a hash is the bytes it was computed from, so that hashes are equal      *)
(* exactly when those bytes are.  A file is a sequence of tagged tokens;   *)
(* what a crash leaves of the token being written is the token "cut".      *)
(***************************************************************************)
EXTENDS Integers, Sequences, FiniteSetsExt

CONSTANTS
  UrlLength,   \* UrlLength[kind]: the length in bytes of such an address
  Parents      \* how many parents a block has

ASSUME ProofFileAssumption ==
  UrlLength \in [{"calendar", "guess", "direct"} -> Nat] /\ Parents \in Nat

Piece(kind, x) == <<<<kind, x>>>>
Sha256(bytes) == <<<<"sha256", bytes>>>>
HashPair(left, right) == Sha256(left \o right)

-----------------------------------------------------------------------------
(* Operations *)

Op(tag, bytes) == <<tag, bytes>>

ApplyOperation(current, op) ==
  CASE op[1] = "append"  -> current \o op[2]
    [] op[1] = "prepend" -> op[2] \o current
    [] op[1] = "sha256"  -> Sha256(current)

(* The results after each operation; the last is what the code returns.    *)
Results(digest, operations) ==
  LET result[k \in 0..Len(operations)] ==
        IF k = 0 THEN digest ELSE ApplyOperation(result[k - 1], operations[k])
  IN  result

ApplyOperations(digest, operations) == Results(digest, operations)[Len(operations)]

-----------------------------------------------------------------------------
(* Merkle trees.  Nodes of a layer are numbered from 0, as in the code. *)

(* A layer of more than one node is padded to an even number with its      *)
(* last.                                                                   *)
Padded(layer) ==
  IF Len(layer) > 1 /\ Len(layer) % 2 # 0 THEN Append(layer, layer[Len(layer)]) ELSE layer

LayerAbove(layer) ==
  Padded([i \in 1..(Len(layer) \div 2) |->
            HashPair(layer[2 * i - 1], layer[2 * i])])

(* The layers from the leaves up; the root repeats above itself.           *)
Layers(leaves) ==
  LET layer[k \in 0..Len(leaves)] ==
        IF k = 0 THEN Padded(leaves)
        ELSE IF Len(layer[k - 1]) = 1 THEN layer[k - 1] ELSE LayerAbove(layer[k - 1])
  IN  layer

Root(leaves) == Layers(leaves)[Len(leaves)][1]

(* The sibling of a node, and the side it is on, if the layer has one.     *)
Sibling(layer, index) ==
  IF index % 2 # 0 THEN <<[hash |-> layer[index], position |-> "left"]>>
  ELSE IF index + 1 < Len(layer) THEN <<[hash |-> layer[index + 2], position |-> "right"]>>
  ELSE <<>>

(* get_proof: one layer up, past the sibling of the node it comes from,    *)
(* and the way up from a leaf.                                             *)
Higher(layer, place) ==
  IF Len(layer) = 1 THEN place
  ELSE [index    |-> place.index \div 2,
        siblings |-> place.siblings \o Sibling(layer, place.index)]

Climb(leaves, leaf_index) ==
  LET place[k \in 0..Len(leaves)] ==
        IF k = 0 THEN [index |-> leaf_index, siblings |-> <<>>]
        ELSE Higher(Layers(leaves)[k - 1], place[k - 1])
  IN  place

GetProof(leaves, leaf_index) == Climb(leaves, leaf_index)[Len(leaves)].siblings

(* Two operations for each sibling: join it on its side, and hash.         *)
Join(sibling) ==
  Op(IF sibling.position = "left" THEN "prepend" ELSE "append", sibling.hash)

ToOperations(siblings) ==
  [k \in 1..(2 * Len(siblings)) |->
     IF k % 2 = 1 THEN Join(siblings[(k + 1) \div 2]) ELSE Op("sha256", <<>>)]

-----------------------------------------------------------------------------
(* Proofs *)

Pending(url) == <<"pending", url>>
Kaspa(attestation) == <<"kaspa", attestation>>

OpTags == {"append", "prepend", "sha256"}
AttestationTags == {"pending", "kaspa"}

Proof(digest, operations, attestations) ==
  [digest |-> digest, operations |-> operations, attestations |-> attestations]

IsComplete(proof) == \E i \in DOMAIN proof.attestations : proof.attestations[i][1] # "pending"

(* Where the pending attestations are; complete takes the first.           *)
PendingAt(proof) == {i \in DOMAIN proof.attestations : proof.attestations[i][1] = "pending"}
PendingUrl(proof) == proof.attestations[Min(PendingAt(proof))][2]

KaspaAttestations(proof) ==
  {proof.attestations[i][2] : i \in {j \in DOMAIN proof.attestations :
                                       proof.attestations[j][1] = "kaspa"}}

Header(digest) == <<"header", digest>>
Cut == <<"cut", <<>>>>

(* Attestations come last, so that no beginning of a complete file is      *)
(* complete.  The slip writes them first.                                  *)
SerializeSwapped(proof) == <<Header(proof.digest)>> \o proof.attestations \o proof.operations
Serialize(proof) == <<Header(proof.digest)>> \o proof.operations \o proof.attestations

Unreadable == Proof(<<>>, <<>>, <<>>)

(* Operations and attestations are told apart by their tags, in any order; *)
(* a token that ends early makes the file unreadable.                      *)
Tagged(tokens, tags) ==
  LET kept[k \in 0..Len(tokens)] ==
        IF k = 0 THEN <<>>
        ELSE IF tokens[k][1] \in tags THEN Append(kept[k - 1], tokens[k]) ELSE kept[k - 1]
  IN  kept[Len(tokens)]

Deserialize(tokens) ==
  IF tokens = <<>> THEN Unreadable
  ELSE IF tokens[1][1] # "header" \/ \E i \in DOMAIN tokens : tokens[i] = Cut
    THEN Unreadable
  ELSE Proof(tokens[1][2], Tagged(tokens, OpTags), Tagged(tokens, AttestationTags))

-----------------------------------------------------------------------------
(* Files written over *)

(* How many bytes a token is; of one that was cut, it is not known.  A     *)
(* token with bytes of two writes keeps the length of the one it began as. *)
Length(token) ==
  CASE Len(token) = 3       -> token[3]
    [] token[1] = "header"  -> 26 + 32
    [] token[1] = "sha256"  -> 1
    [] token[1] = "pending" -> 2 + UrlLength[token[2][1]]
    [] token[1] = "kaspa"   -> 127 + 32 * Parents
    [] token = Cut          -> 0
    [] OTHER                -> 2 + (IF token[2][1][1] = "nonce" THEN 16 ELSE 32)

Size(tokens) == MapThenSumSet(LAMBDA i : Length(tokens[i]), DOMAIN tokens)

(* What a file is when its first bytes are written over.  The format has   *)
(* no length, so what is left of it follows, if that begins with a token;  *)
(* from the middle of one on it cannot be read.                            *)
Overlays(front, old) ==
  LET covered == {k \in DOMAIN old : Size(SubSeq(old, 1, k)) = Size(front)}
      hasCut  == \E k \in DOMAIN old : old[k] = Cut
  IN  {front \o SubSeq(old, k + 1, Len(old)) : k \in covered} \cup
      (IF Size(front) > Size(old) THEN {front} ELSE {}) \cup
      (IF covered = {} /\ (Size(front) < Size(old) \/ hasCut) THEN {Append(front, Cut)} ELSE {})

(* What it is when the write stops in one of its tokens: the rest of that  *)
(* is made of what was there, if so much was there.                        *)
Blended(token) == <<token[1], Piece("blended", 0), Length(token)>>

StopsIn(k, written, old) ==
  LET before == SubSeq(written, 1, k - 1)
  IN  IF Size(SubSeq(written, 1, k)) > Size(old) THEN {Append(before, Cut)}
      ELSE Overlays(Append(before, Blended(written[k])), old)

-----------------------------------------------------------------------------
(* Verdicts *)

(* verify_proof: the data, if given, has the digest, and one attestation   *)
(* is complete.                                                            *)
Valid(proof, data) ==
  /\ data # <<>> => Sha256(data) = proof.digest
  /\ IsComplete(proof)

(* verify_attestation_on_chain, for a chain given as the set of its        *)
(* transactions with their blocks: the block is there with its score, the  *)
(* transaction is in it and carries the commitment.                        *)
OnChain(attestation, commitment, chain) ==
  \E t \in chain : /\ t.block = attestation.block /\ t.daa_score = attestation.daa_score
                   /\ t.tx = attestation.tx
                   /\ t.commitment = commitment

=============================================================================
