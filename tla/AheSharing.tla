----------------------------- MODULE AheSharing ------------------------------
(***************************************************************************)
(* What AHE promises to the PHP processes, without a broker: the "Safety   *)
(* invariants" of docs/architecture.md as a specification.  A process maps *)
(* fresh memory at any address, or memory that some process completed with *)
(* the same cache key, at the address it was completed at.  Processes      *)
(* change the memory they share one at a time.                             *)
(***************************************************************************)
CONSTANTS
    Procs,
    Keys,       \* the cache keys processes compute
    Addresses,
    Mappings,   \* the shared memories there will ever be
    NoMapping,  \* nothing is mapped
    NoKey       \* and nothing was asked for

ASSUME SharingAssumption == NoMapping \notin Mappings

VARIABLES
    mapping,    \* the memory each process maps, or NoMapping
    base,       \* the address it maps it at
    key,        \* the cache key it asked for it with
    built,      \* the memories that were completed
    locked      \* the processes that change their memory

sharingVars == <<mapping, base, key, built, locked>>

(* The types of the abstract state.                                        *)
SharingTypeOK ==
    /\ mapping \in [Procs -> Mappings \cup {NoMapping}]
    /\ base \in [Procs -> Addresses \cup {NoMapping}]
    /\ key \in [Procs -> Keys \cup {NoKey}]
    /\ built \subseteq [mapping : Mappings, base : Addresses, key : Keys]
    /\ locked \subseteq Procs

SharingInit ==
    /\ mapping = [p \in Procs |-> NoMapping]
    /\ base = [p \in Procs |-> NoMapping]
    /\ key = [p \in Procs |-> NoKey]
    /\ built = {}
    /\ locked = {}

Used == {mapping[p] : p \in Procs} \cup {b.mapping : b \in built}

Mine(p) == [mapping |-> mapping[p], base |-> base[p], key |-> key[p]]

MapFresh(p) ==
    /\ mapping[p] = NoMapping
    /\ \E m \in Mappings \ Used : mapping' = [mapping EXCEPT ![p] = m]
    /\ \E address \in Addresses : base' = [base EXCEPT ![p] = address]
    /\ \E k \in Keys : key' = [key EXCEPT ![p] = k]
    /\ UNCHANGED <<built, locked>>

(* Faulty variant: the memory of any key.                                  *)
MapAnyBuilt(p) ==
    /\ mapping[p] = NoMapping
    /\ \E b \in built :
          /\ mapping' = [mapping EXCEPT ![p] = b.mapping]
          /\ base' = [base EXCEPT ![p] = b.base]
    /\ \E k \in Keys : key' = [key EXCEPT ![p] = k]
    /\ UNCHANGED <<built, locked>>

MapBuilt(p) ==
    /\ mapping[p] = NoMapping
    /\ \E b \in built :
          /\ mapping' = [mapping EXCEPT ![p] = b.mapping]
          /\ base' = [base EXCEPT ![p] = b.base]
          /\ key' = [key EXCEPT ![p] = b.key]
    /\ UNCHANGED <<built, locked>>

(* Faulty variant: also when the memory was given up meanwhile.            *)
CompleteUnmapped(p) ==
    /\ \A b \in built : b.mapping # mapping[p]
    /\ built' = built \cup {Mine(p)}
    /\ UNCHANGED <<mapping, base, key, locked>>

Complete(p) ==
    /\ mapping[p] # NoMapping
    /\ \A b \in built : b.mapping # mapping[p]
    /\ built' = built \cup {Mine(p)}
    /\ UNCHANGED <<mapping, base, key, locked>>

Lock(p) ==
    /\ Mine(p) \in built
    /\ \A q \in locked : mapping[q] # mapping[p]
    /\ locked' = locked \cup {p}
    /\ UNCHANGED <<mapping, base, key, built>>

Unlock(p) ==
    /\ p \in locked
    /\ locked' = locked \ {p}
    /\ UNCHANGED <<mapping, base, key, built>>

(* Also when the process dies.                                             *)
Unmap(p) ==
    /\ mapping[p] # NoMapping
    /\ mapping' = [mapping EXCEPT ![p] = NoMapping]
    /\ base' = [base EXCEPT ![p] = NoMapping]
    /\ key' = [key EXCEPT ![p] = NoKey]
    /\ locked' = locked \ {p}
    /\ UNCHANGED built

SharingNext ==
    \E p \in Procs :
        MapFresh(p) \/ MapBuilt(p) \/ Complete(p) \/ Lock(p) \/ Unlock(p)
        \/ Unmap(p)

SharingSpec == SharingInit /\ [][SharingNext]_sharingVars

-----------------------------------------------------------------------------
(* "Raw pointers require the same mapping base in every process.": those   *)
(* who share memory have it at one address, computed one key and do not    *)
(* change it together; what was completed stays what it was.               *)
SharedAlike ==
    \A p, q \in Procs :
        mapping[p] = mapping[q] /\ mapping[p] # NoMapping =>
            /\ base[p] = base[q]
            /\ key[p] = key[q]
            /\ p \in locked /\ q \in locked => p = q

=============================================================================
