------------------------------ MODULE MCProvider -----------------------------
(* One PHP process and its provider, with two faults at once, for TLC.     *)
EXTENDS AheProvider

BothFaults == {{"munmap", "offset"}}

=============================================================================
