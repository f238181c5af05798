--------------------------- MODULE MCBatchManager ---------------------------
(* Small instances of BatchManager: two modes with different windows. *)
EXTENDS BatchManager

MCModes == 1..2
MCWindow == [m \in MCModes |-> m]

=============================================================================
