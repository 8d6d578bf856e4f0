----------------------------- MODULE MCPromises ------------------------------
(***************************************************************************)
(* Small instances of the two abstract specifications for TLC.  They share *)
(* nothing, so either the one or the other takes all of a behaviour's      *)
(* steps.                                                                  *)
(***************************************************************************)
EXTENDS AheGeneration, AheSharing

EitherInit == Init /\ SharingInit

EitherNext ==
    \/ Next /\ SharingInit /\ UNCHANGED sharingVars
    \/ SharingNext /\ Init /\ UNCHANGED vars

EitherSpec == EitherInit /\ [][EitherNext]_<<vars, sharingVars>>

=============================================================================
