---------------------------- MODULE AheGeneration ----------------------------
(***************************************************************************)
(* What the broker promises, without sockets, descriptors, queues or a     *)
(* poll loop: at most one cache memory at a time, initialised by one       *)
(* client, attached to by any number once it is published, and never       *)
(* withdrawn after that as long as the service runs.                       *)
(***************************************************************************)
CONSTANTS
    Clients,
    Nobody,     \* not a client
    Memories,   \* the shared memories that can ever be made
    NoMemory,
    Places,     \* where a creator can map its memory
    NoPlace     \* the place of memory that is not published yet

ASSUME GenerationAssumption ==
    /\ Nobody \notin Clients
    /\ NoMemory \notin Memories
    /\ NoPlace \notin Places

VARIABLES
    phase,      \* of the one generation, or of the service
    owner,      \* the client that initialises it
    memory,     \* the shared memory it consists of
    place,      \* where its creator mapped it
    holders     \* who was given which memory, to be mapped where

Holder ==
    [client : Clients, memory : Memories, place : Places \cup {NoPlace}]

vars == <<phase, owner, memory, place, holders>>

(* The abstract state has an owner exactly while a generation is being     *)
(* built, a memory exactly while there is a generation, and a place        *)
(* exactly once it is published.                                           *)
TypeOK ==
    /\ phase \in {"none", "building", "published", "stopped"}
    /\ owner \in Clients \cup {Nobody}
    /\ memory \in Memories \cup {NoMemory}
    /\ place \in Places \cup {NoPlace}
    /\ holders \subseteq Holder
    /\ phase = "building" <=> owner # Nobody
    /\ phase \in {"building", "published"} <=> memory # NoMemory
    /\ phase = "published" <=> place # NoPlace

Init ==
    /\ phase = "none"
    /\ owner = Nobody
    /\ memory = NoMemory
    /\ place = NoPlace
    /\ holders = {}

Hold(c, m, p) == [client |-> c, memory |-> m, place |-> p]

(* Faulty variant: memory is handed out a second time.                     *)
CreateAgain(c) ==
    /\ phase = "none"
    /\ phase' = "building"
    /\ owner' = c
    /\ memory' \in Memories
    /\ place' = NoPlace
    /\ holders' = holders \cup {Hold(c, memory', NoPlace)}

(* A client receives memory that nobody was ever given before.             *)
Create(c) ==
    /\ phase = "none"
    /\ phase' = "building"
    /\ owner' = c
    /\ memory' \in Memories \ {h.memory : h \in holders}
    /\ place' = NoPlace
    /\ holders' = holders \cup {Hold(c, memory', NoPlace)}

(* Its creator says where the memory is mapped.                            *)
Publish ==
    /\ phase = "building"
    /\ phase' = "published"
    /\ owner' = Nobody
    /\ place' \in Places
    /\ UNCHANGED <<memory, holders>>

(* Faulty variant: memory under construction is attached to.               *)
AttachEarly(c) ==
    /\ phase \in {"building", "published"}
    /\ holders' = holders \cup {Hold(c, memory, place)}
    /\ UNCHANGED <<phase, owner, memory, place>>

Attach(c) ==
    /\ phase = "published"
    /\ holders' = holders \cup {Hold(c, memory, place)}
    /\ UNCHANGED <<phase, owner, memory, place>>

(* Faulty variant: the discarded generation keeps its memory.              *)
DiscardKeeps ==
    /\ phase = "building"
    /\ phase' = "none"
    /\ owner' = Nobody
    /\ UNCHANGED <<memory, place, holders>>

(* The creator gives up or disappears.                                     *)
Discard ==
    /\ phase = "building"
    /\ phase' = "none"
    /\ owner' = Nobody
    /\ memory' = NoMemory
    /\ place' = NoPlace
    /\ UNCHANGED holders

Stop ==
    /\ phase # "stopped"
    /\ phase' = "stopped"
    /\ owner' = Nobody
    /\ memory' = NoMemory
    /\ place' = NoPlace
    /\ UNCHANGED holders

Next ==
    \/ \E c \in Clients : Create(c) \/ Attach(c)
    \/ Publish \/ Discard \/ Stop

Spec == Init /\ [][Next]_vars

-----------------------------------------------------------------------------
Creates(h) == h.place = NoPlace

(* One client at most was given any one memory to initialise, and all who  *)
(* attach to a memory attach to it at one place.                           *)
HoldersAgree ==
    \A h, k \in holders : h.memory = k.memory =>
        /\ Creates(h) /\ Creates(k) => h.client = k.client
        /\ ~Creates(h) /\ ~Creates(k) => h.place = k.place

(* The memory under construction is held by its owner and by nobody else.  *)
OwnerAlone ==
    phase = "building" =>
        \A h \in holders : h.memory = memory =>
            Creates(h) /\ h.client = owner

(* Whoever attached to the published memory did so where it is now.        *)
AttachedInPlace ==
    phase = "published" =>
        \A h \in holders : h.memory = memory /\ ~Creates(h) =>
            h.place = place

(* The inductive invariant behind HoldersAgree and OwnerAlone.             *)
GenerationInv == TypeOK /\ HoldersAgree /\ OwnerAlone /\ AttachedInPlace

=============================================================================
