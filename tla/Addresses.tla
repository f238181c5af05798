------------------------------ MODULE Addresses -------------------------------
(***************************************************************************)
(* Addresses of wallet.rs: a key as a version byte and its bytes, those as *)
(* 5-bit words, and eight words of checksum over the network's prefix and  *)
(* the words.  An address is a record of its prefix and its data words;    *)
(* the letters that stand for the words are left out, being one to one.    *)
(* The 40 bits of the checksum are kept as eight 5-bit digits, the first   *)
(* the highest, so that numbers stay small.                                *)
(***************************************************************************)
EXTENDS Integers, Sequences

CONSTANT KeyLength   \* bytes of a key (32)

ASSUME AddressAssumption == KeyLength \in Nat \ {0}

-----------------------------------------------------------------------------
(* convert_bits *)

Bits(data, width) ==
  [k \in 1..(width * Len(data)) |->
     (data[(k - 1) \div width + 1] \div 2 ^ (width - 1 - ((k - 1) % width))) % 2]

(* The number that has been gathered after each bit, and after all. *)
Gathered(bits) ==
  LET number[k \in 0..Len(bits)] == IF k = 0 THEN 0 ELSE 2 * number[k - 1] + bits[k]
  IN  number

Number(bits) == Gathered(bits)[Len(bits)]

Groups(bits, width) ==
  [g \in 1..(Len(bits) \div width) |-> Number(SubSeq(bits, width * (g - 1) + 1, width * g))]

BadBits == <<-1>>

(* With pad the last group is filled with zeros; without, what is left     *)
(* over must be less than a word of the input, and zero.                   *)
ConvertBits(data, from, to, pad) ==
  LET bits == Bits(data, from)
      rest == SubSeq(bits, Len(bits) - (Len(bits) % to) + 1, Len(bits))
      fill == [k \in 1..(to - Len(rest)) |-> 0]
  IN  IF \E i \in DOMAIN data : data[i] >= 2 ^ from THEN BadBits
      ELSE IF pad THEN IF rest = <<>> THEN Groups(bits, to) ELSE Groups(bits \o fill, to)
      ELSE IF Len(rest) >= from \/ Number(rest) # 0 THEN BadBits
      ELSE Groups(bits, to)

-----------------------------------------------------------------------------
(* The checksum *)

XorDigit(a, b) ==
  LET bit(i) == ((a \div 2 ^ i) + (b \div 2 ^ i)) % 2
  IN  bit(0) + 2 * bit(1) + 4 * bit(2) + 8 * bit(3) + 16 * bit(4)

Xor(x, y) == [d \in 1..8 |-> XorDigit(x[d], y[d])]
Zero == [d \in 1..8 |-> 0]
One == [Zero EXCEPT ![8] = 1]

(* GEN, each as its upper and its lower 20 bits *)
Gen == <<<<\h98f2b, \hc8e61>>, <<\h79b76, \hd99e2>>, <<\hf33e5, \hfb3c4>>,
         <<\hae2ea, \hbe2a8>>, <<\h1e4f4, \h3e470>>>>

GenDigits(i) ==
  [d \in 1..8 |-> (Gen[i][(d + 3) \div 4] \div 32 ^ (3 - ((d - 1) % 4))) % 32]

(* The generators that the five bits shifted out at the top stand for *)
Generator(top, i) == IF (top \div 2 ^ (i - 1)) % 2 = 1 THEN GenDigits(i) ELSE Zero

Feedback[top \in 0..31] ==
  Xor(Generator(top, 1),
      Xor(Generator(top, 2),
          Xor(Generator(top, 3), Xor(Generator(top, 4), Generator(top, 5)))))

(* A value comes in at the low end, a digit goes out at the top.           *)
Shifted(chk, v) == [d \in 1..8 |-> IF d = 8 THEN v ELSE chk[d + 1]]

(* The checksum after each value, and after all.                           *)
Checks(values) ==
  LET chk[k \in 0..Len(values)] ==
        IF k = 0 THEN One ELSE Xor(Shifted(chk[k - 1], values[k]), Feedback[chk[k - 1][1]])
  IN  chk

Polymod(values) == Checks(values)[Len(values)]

CreateChecksum(prefix, words) == Xor(Polymod(prefix \o <<0>> \o words \o Zero), One)
VerifyChecksum(prefix, words) == Polymod(prefix \o <<0>> \o words) = One

-----------------------------------------------------------------------------
(* Addresses and scripts *)

(* prefix_expand of "kaspa", "kaspatest", "kaspasim" and "kaspadev",        *)
(* without the closing zero                                                *)
Networks == {"mainnet", "testnet", "testnet-10", "testnet-11", "simnet", "devnet"}

PrefixOf(network) ==
  CASE network = "mainnet" -> <<11, 1, 19, 16, 1>>
    [] network = "simnet" -> <<11, 1, 19, 16, 1, 19, 9, 13>>
    [] network = "devnet" -> <<11, 1, 19, 16, 1, 4, 5, 22>>
    [] network \in {"testnet", "testnet-10", "testnet-11"} -> <<11, 1, 19, 16, 1, 20, 5, 19, 20>>

(* The version byte of a Schnorr key. *)
Versioned(key) == <<0>> \o key

EncodeAddress(key, network) ==
  LET words == ConvertBits(Versioned(key), 8, 5, TRUE)
  IN  [prefix |-> PrefixOf(network),
       data |-> words \o CreateChecksum(PrefixOf(network), words)]

Refused == [ok |-> FALSE, key |-> <<>>]

(* Version 0 and 1 are keys of one length, 8 is a script hash of any.      *)
KnownVersion(payload) ==
  \/ payload[1] \in {0, 1} /\ Len(payload) - 1 = KeyLength
  \/ payload[1] = 8

DecodeAddress(address) ==
  LET words == SubSeq(address.data, 1, Len(address.data) - 8)
      payload == ConvertBits(words, 5, 8, FALSE)
  IN  IF Len(address.data) < 8 \/ ~VerifyChecksum(address.prefix, address.data) THEN Refused
      ELSE IF payload = BadBits \/ payload = <<>> \/ ~KnownVersion(payload) THEN Refused
      ELSE [ok |-> TRUE, key |-> Tail(payload)]

(* <push> <key> OP_CHECKSIG *)
PayToKey(key) == <<Len(key)>> \o key \o <<\hac>>

(* The version is gone by now: 32 bytes are taken for a Schnorr key, 33    *)
(* for an ECDSA key.                                                       *)
AddressToScript(address) ==
  LET decoded == DecodeAddress(address)
  IN  IF decoded.ok /\ Len(decoded.key) \in {KeyLength, KeyLength + 1}
        THEN PayToKey(decoded.key) ELSE <<>>

=============================================================================
