---------------------------- MODULE MCSocketPath -----------------------------
(* A few brokers started with one socket path, for TLC.                    *)
EXTENDS AheSocketPath
=============================================================================
