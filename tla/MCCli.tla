------------------------------- MODULE MCCli --------------------------------
(* Two inputs whose proofs share a name, in a batch of three.  The user's  *)
(* calendar has a base address of 36 bytes, where a pending proof ends     *)
(* before the last sha256 of a path of two siblings, and the calendar that *)
(* answers one of 37, where it ends before the attestation.                *)
EXTENDS Cli

MCInputs == {<<"a", "pdf">>, <<"a", "txt">>}
MCSubmitted == <<<<"z", "bin">>, <<"a", "txt">>, <<"a", "pdf">>>>
MCUrlLength == [kind \in {"calendar", "guess", "direct"} |->
                  CASE kind = "calendar" -> 37 + 31
                    [] kind = "guess"    -> 36 + 31
                    [] kind = "direct"   -> 144]
=============================================================================
