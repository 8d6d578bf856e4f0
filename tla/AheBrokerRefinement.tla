------------------------- MODULE AheBrokerRefinement -------------------------
(***************************************************************************)
(* The broker of AheBroker implements the abstract service AheGeneration:  *)
(* the generation record and the descriptor table together stand for the   *)
(* one cache memory, a descriptor pair that reached a socket for a holder. *)
(***************************************************************************)
EXTENDS AheBroker

CONSTANT Nobody

PhaseOf(state) == CASE state = "EMPTY" -> "none"
                    [] state = "INITIALIZING" -> "building"
                    [] state = "READY" -> "published"

PlaceOf(record) == [base |-> record.mapping_base,
                    offset |-> record.shared_globals_offset]

Abstract == INSTANCE AheGeneration WITH
    Clients <- Conns,
    Memories <- Nat \ {NoId},
    NoMemory <- NoId,
    Places <- [base : Nat \ {0}, offset : Nat],
    NoPlace <- [base |-> 0, offset |-> 0],
    phase <- IF pc = "exited" THEN "stopped" ELSE PhaseOf(generation.state),
    owner <- IF generation.creator_fd = NoFd THEN Nobody
             ELSE fd_table[generation.creator_fd].id,
    memory <- IF generation.cache_fd = NoFd THEN NoId
              ELSE fd_table[generation.cache_fd].id,
    place <- PlaceOf(generation),
    holders <- {[client |-> g.conn, memory |-> g.cache,
                 place |-> PlaceOf(g)] : g \in granted}

(* Every step of the broker, its peers or the kernel is a step of the      *)
(* abstract service or does not concern it.                                *)
RefinesGeneration == Abstract!Spec

(* The abstract service's promise to its holders, read in the broker's     *)
(* state: one creator and one place per memory.                            *)
HoldersAgree == Abstract!HoldersAgree

=============================================================================
