------------------------------ MODULE MCBroker -------------------------------
(***************************************************************************)
(* Instances of AheBroker for TLC: arbitrary peers that send, in any       *)
(* order, one representative of every kind of message the handlers tell    *)
(* apart.                                                                  *)
(***************************************************************************)
EXTENDS AheBrokerRefinement, TLC

CONSTANTS c1, c2, c3

Message(type, size, base, offset, key) ==
    [type |-> type, mapping_size |-> size, mapping_base |-> base,
     shared_globals_offset |-> offset, cache_key |-> key]

Plain(type) == Message(type, 0, 0, 0, "empty")

(* What a PHP process sends.                                               *)
Protocol ==
    {Message("ACQUIRE", 2, 0, 0, "key"), Message("READY", 2, 1, 1, "empty"),
     Plain("ABORT"), Plain("DETACH")}

(* The refusals: a mismatch, a READY without a base, for another size or   *)
(* with an offset past the end, and what no handler accepts.               *)
Refused ==
    {Message("ACQUIRE", 1, 0, 0, "open"), Message("READY", 2, 0, 0, "empty"),
     Message("READY", 1, 1, 0, "empty"), Message("READY", 2, 1, 2, "empty"),
     Plain("OTHER"), Plain("MALFORMED")}

(* Another creator that chooses another address.                           *)
Elsewhere == {Message("READY", 2, 2, 0, "empty")}

AnyRequest == Protocol \cup Elsewhere \cup Refused

(* The requests that change the generation.                                *)
Changing ==
    {Message("ACQUIRE", 2, 0, 0, "key"), Message("READY", 2, 1, 1, "empty")}

NoForeign == {}
ThirdForeign == {c3}
KeySet == {"key"}

Symmetry == Permutations(Conns \ Foreign)

=============================================================================
