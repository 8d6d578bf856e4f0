------------------------- MODULE AhePromises_proofs --------------------------
(***************************************************************************)
(* What the two abstract specifications promise: AheGeneration for any     *)
(* clients, memories and places, AheSharing for any processes, memories,   *)
(* addresses and keys.  The two share nothing.                             *)
(***************************************************************************)
EXTENDS AheGeneration, AheSharing, TLAPS

-----------------------------------------------------------------------------
(* The service: AheGeneration.                                             *)

(* The service starts with nobody holding anything.                        *)
LEMMA GenerationInit == Init => GenerationInv
BY GenerationAssumption
   DEF Init, GenerationInv, TypeOK, HoldersAgree, OwnerAlone,
       AttachedInPlace

(* No operation of the service breaks the invariant.                       *)
LEMMA GenerationStep == GenerationInv /\ [Next]_vars => GenerationInv'
<1> SUFFICES ASSUME GenerationInv, [Next]_vars
             PROVE  GenerationInv'
    OBVIOUS
<1> USE GenerationAssumption DEF GenerationInv, TypeOK, Holder
<1>1. ASSUME NEW c \in Clients, Create(c)
      PROVE  GenerationInv'
  <2> USE <1>1 DEF Create, Hold
  <2>1. TypeOK'
      OBVIOUS
  <2>2. \A h \in holders : h.memory # memory'
      OBVIOUS
  <2>3. HoldersAgree'
      BY <2>2 DEF HoldersAgree, Creates
  <2>4. OwnerAlone' /\ AttachedInPlace'
      BY <2>2 DEF OwnerAlone, AttachedInPlace, Creates
  <2> QED BY <2>1, <2>3, <2>4
<1>2. ASSUME NEW c \in Clients, Attach(c)
      PROVE  GenerationInv'
  <2> USE <1>2 DEF Attach, Hold
  <2>1. TypeOK'
      OBVIOUS
  <2>2. HoldersAgree'
      BY DEF HoldersAgree, AttachedInPlace, Creates
  <2>3. OwnerAlone' /\ AttachedInPlace'
      BY DEF OwnerAlone, AttachedInPlace, Creates
  <2> QED BY <2>1, <2>2, <2>3
<1>3. CASE Publish
  <2> USE <1>3 DEF Publish
  <2>1. TypeOK'
      OBVIOUS
  <2>2. HoldersAgree'
      BY DEF HoldersAgree, Creates
  <2>3. OwnerAlone' /\ AttachedInPlace'
      BY DEF OwnerAlone, AttachedInPlace, Creates
  <2> QED BY <2>1, <2>2, <2>3
<1>4. CASE Discard \/ Stop
      BY <1>4 DEF Discard, Stop, HoldersAgree, OwnerAlone, AttachedInPlace,
                  Creates
<1>5. CASE UNCHANGED vars
      BY <1>5 DEF vars, HoldersAgree, OwnerAlone, AttachedInPlace, Creates
<1> QED BY <1>1, <1>2, <1>3, <1>4, <1>5 DEF Next

(* The invariant of the abstract service.                                  *)
THEOREM GenerationInvariant == Spec => []GenerationInv
BY GenerationInit, GenerationStep, PTL DEF Spec

(* There is an owner exactly while a generation is being built, a memory   *)
(* exactly while there is one, and a place exactly once it is published.   *)
THEOREM GenerationTypes == Spec => []TypeOK
<1>1. GenerationInv => TypeOK
      BY DEF GenerationInv
<1> QED BY <1>1, GenerationInvariant, PTL

(* For any clients, memories and places: one client at most is ever given  *)
(* a memory to initialise, and all who attach to it attach at one place.   *)
THEOREM HoldersSafe == Spec => []HoldersAgree
<1>1. GenerationInv => HoldersAgree
      BY DEF GenerationInv
<1> QED BY <1>1, GenerationInvariant, PTL

(* Nobody but its owner holds a memory that is being built.                *)
THEOREM BuiltAlone == Spec => []OwnerAlone
<1>1. GenerationInv => OwnerAlone
      BY DEF GenerationInv
<1> QED BY <1>1, GenerationInvariant, PTL

-----------------------------------------------------------------------------
(* The processes: AheSharing.                                              *)

(* Whoever maps completed memory has it as it was completed, memory is     *)
(* completed once, only those who map memory change it, and what is mapped *)
(* has an address and a key.                                               *)
BuiltAlike ==
    /\ \A b \in built, p \in Procs :
          mapping[p] = b.mapping => base[p] = b.base /\ key[p] = b.key
    /\ \A b, c \in built : b.mapping = c.mapping => b = c
    /\ \A p \in locked : mapping[p] # NoMapping
    /\ \A p \in Procs : mapping[p] # NoMapping =>
          base[p] \in Addresses /\ key[p] \in Keys

SharingInv == SharingTypeOK /\ SharedAlike /\ BuiltAlike

USE SharingAssumption DEF SharingInv

(* Nothing is mapped at first.                                             *)
LEMMA SharingInitially == SharingInit => SharingInv
  BY DEF SharingInit, SharingTypeOK, SharedAlike, BuiltAlike

(* A process that maps memory nobody has.                                  *)
LEMMA MapFreshStep ==
  ASSUME SharingInv, NEW p \in Procs, MapFresh(p)
  PROVE  SharingInv'
  <1>1. PICK m \in Mappings \ Used : mapping' = [mapping EXCEPT ![p] = m]
    BY DEF MapFresh
  <1>2. PICK address \in Addresses, k \in Keys :
            /\ base' = [base EXCEPT ![p] = address]
            /\ key' = [key EXCEPT ![p] = k]
            /\ built' = built /\ locked' = locked
    BY DEF MapFresh
  <1>3. mapping[p] = NoMapping /\ p \notin locked
    BY DEF MapFresh, BuiltAlike
  <1>4. /\ \A q \in Procs : mapping[q] # m
        /\ \A b \in built : b.mapping # m
        /\ m # NoMapping
    BY <1>1 DEF Used
  <1>5. SharingTypeOK'
    BY <1>1, <1>2 DEF SharingTypeOK
  <1>6. SharedAlike'
    BY <1>1, <1>2, <1>3, <1>4 DEF SharingTypeOK, SharedAlike
  <1>7. BuiltAlike'
    BY <1>1, <1>2, <1>3, <1>4 DEF SharingTypeOK, BuiltAlike
  <1> QED BY <1>5, <1>6, <1>7

(* A process that maps memory completed with its key.                      *)
LEMMA MapBuiltStep ==
  ASSUME SharingInv, NEW p \in Procs, MapBuilt(p)
  PROVE  SharingInv'
  <1>1. PICK b \in built :
            /\ mapping' = [mapping EXCEPT ![p] = b.mapping]
            /\ base' = [base EXCEPT ![p] = b.base]
            /\ key' = [key EXCEPT ![p] = b.key]
    BY DEF MapBuilt
  <1>2. built' = built /\ locked' = locked
    BY DEF MapBuilt
  <1>3. mapping[p] = NoMapping /\ p \notin locked
    BY DEF MapBuilt, BuiltAlike
  <1>4. b.mapping \in Mappings /\ b.base \in Addresses /\ b.key \in Keys
    BY DEF SharingTypeOK
  <1>5. SharingTypeOK'
    BY <1>1, <1>2, <1>4 DEF SharingTypeOK
  <1>6. \A q \in Procs : mapping[q] = b.mapping =>
            base[q] = b.base /\ key[q] = b.key
    BY <1>1 DEF BuiltAlike
  <1>7. SharedAlike'
    BY <1>1, <1>2, <1>3, <1>6 DEF SharingTypeOK, SharedAlike
  <1>8. \A c \in built : c.mapping = b.mapping => c = b
    BY DEF BuiltAlike
  <1>9. BuiltAlike'
    BY <1>1, <1>2, <1>3, <1>4, <1>8 DEF SharingTypeOK, BuiltAlike
  <1> QED BY <1>5, <1>7, <1>9

(* A process whose memory is complete from now on.                         *)
LEMMA CompleteStep ==
  ASSUME SharingInv, NEW p \in Procs, Complete(p)
  PROVE  SharingInv'
  <1>1. /\ mapping' = mapping /\ base' = base /\ key' = key
        /\ locked' = locked
        /\ built' = built \cup {Mine(p)}
        /\ mapping[p] # NoMapping
        /\ \A b \in built : b.mapping # mapping[p]
    BY DEF Complete
  <1>2. base[p] \in Addresses /\ key[p] \in Keys
    BY <1>1 DEF BuiltAlike
  <1>3. SharingTypeOK'
    BY <1>1, <1>2 DEF SharingTypeOK, Mine
  <1>4. SharedAlike'
    BY <1>1 DEF SharedAlike
  <1>5. BuiltAlike'
    BY <1>1 DEF SharedAlike, BuiltAlike, Mine
  <1> QED BY <1>3, <1>4, <1>5

(* Taking and leaving the lock.                                            *)
LEMMA LockStep ==
  ASSUME SharingInv, NEW p \in Procs, Lock(p) \/ Unlock(p)
  PROVE  SharingInv'
  <1>1. mapping' = mapping /\ base' = base /\ key' = key /\ built' = built
    BY DEF Lock, Unlock
  <1>2. CASE Lock(p)
    <2>1. /\ locked' = locked \cup {p}
          /\ \A q \in locked : mapping[q] # mapping[p]
          /\ Mine(p) \in built
      BY <1>2 DEF Lock
    <2>2. mapping[p] # NoMapping
      BY <2>1 DEF SharingTypeOK, Mine
    <2> QED BY <1>1, <2>1, <2>2 DEF SharingTypeOK, SharedAlike, BuiltAlike
  <1>3. CASE Unlock(p)
    <2>1. locked' = locked \ {p}
      BY <1>3 DEF Unlock
    <2> QED BY <1>1, <2>1 DEF SharingTypeOK, SharedAlike, BuiltAlike
  <1> QED BY <1>2, <1>3

(* A process that leaves, with or without the lock.                        *)
LEMMA UnmapStep ==
  ASSUME SharingInv, NEW p \in Procs, Unmap(p)
  PROVE  SharingInv'
  <1>1. /\ mapping' = [mapping EXCEPT ![p] = NoMapping]
        /\ base' = [base EXCEPT ![p] = NoMapping]
        /\ key' = [key EXCEPT ![p] = NoKey]
        /\ built' = built /\ locked' = locked \ {p}
    BY DEF Unmap
  <1>2. SharingTypeOK'
    BY <1>1 DEF SharingTypeOK
  <1>3. SharedAlike'
    BY <1>1 DEF SharingTypeOK, SharedAlike
  <1>4. \A b \in built : b.mapping # NoMapping
    BY DEF SharingTypeOK
  <1>5. BuiltAlike'
    BY <1>1, <1>4 DEF SharingTypeOK, BuiltAlike
  <1> QED BY <1>2, <1>3, <1>5

(* Every step of a process keeps the invariant.                            *)
LEMMA SharingKept == SharingInv /\ [SharingNext]_sharingVars => SharingInv'
  <1> SUFFICES ASSUME SharingInv, [SharingNext]_sharingVars PROVE SharingInv'
    OBVIOUS
  <1>1. CASE UNCHANGED sharingVars
    BY <1>1 DEF sharingVars, SharingTypeOK, SharedAlike, BuiltAlike
  <1>2. CASE SharingNext
    <2>1. PICK p \in Procs :
              \/ MapFresh(p) \/ MapBuilt(p) \/ Complete(p)
              \/ Lock(p) \/ Unlock(p) \/ Unmap(p)
      BY <1>2 DEF SharingNext
    <2> QED BY <2>1, MapFreshStep, MapBuiltStep, CompleteStep, LockStep,
               UnmapStep
  <1> QED BY <1>1, <1>2

(* The invariant behind the promise.                                       *)
THEOREM SharingInvariant == SharingSpec => []SharingInv
  BY SharingInitially, SharingKept, PTL DEF SharingSpec

(* Type correctness of the abstract processes.                             *)
THEOREM SharingTypes == SharingSpec => []SharingTypeOK
  <1>1. SharingInv => SharingTypeOK
    OBVIOUS
  <1> QED BY SharingInvariant, <1>1, PTL

(* The promise of docs/architecture.md, for any number of processes: one   *)
(* address, one key and one writer per memory.                             *)
THEOREM SharingSafe == SharingSpec => []SharedAlike
  <1>1. SharingInv => SharedAlike
    OBVIOUS
  <1> QED BY SharingInvariant, <1>1, PTL

=============================================================================
