------------------------------ MODULE MCPayment ------------------------------
(***************************************************************************)
(* Keys of two bytes for module Payment: 24 bits with the version, which,  *)
(* as with the 264 bits of a real address, leave one bit of padding.       *)
(***************************************************************************)
EXTENDS Payment

MCStampKey == <<5, 200>>
MCReturnKey == <<255, 129>>
MCStaleKey == <<8, 0>>
MCCommitment == <<77, 1>>

=============================================================================
