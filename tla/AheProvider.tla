----------------------------- MODULE AheProvider -----------------------------
(***************************************************************************)
(* What one PHP process owns while OPcache uses the provider: the          *)
(* ahe_broker_client of src/ahe_broker_client.c, the callbacks of          *)
(* src/abyssal_hyperglyph_engine.c and the allocator functions that        *)
(* patches/php/8.4/0001 adds to OPcache.  The broker is anybody: a reply   *)
(* has any type, size, offset and number of descriptors.                   *)
(*                                                                         *)
(* AheSystem is about what processes share; this module is about what a    *)
(* process must give back, through every failure exit.                     *)
(***************************************************************************)
EXTENDS Integers

CONSTANTS
    MappingSize,    \* requested_size
    GlobalsSize,    \* sizeof(zend_smm_shared_globals)
    Offsets,        \* the offsets that replies carry
    FaultSets       \* the combinations of faults that are considered

ASSUME ProviderAssumption ==
    /\ MappingSize \in Nat \ {0} /\ GlobalsSize \in Nat \ {0}
    /\ Offsets \subseteq Nat
    /\ FaultSets \subseteq SUBSET {"munmap", "offset"}

VARIABLES
    faults,     \* which of the rarer faults may happen to this process
    at,         \* where the process is in the life of the shared memory
    own,        \* its ahe_broker_client, and what it really holds
    response,   \* the reply ahe_broker_client_acquire works on
    opcache,    \* the allocator's static variables
    accepted,   \* history: allocations OPcache accepted
    reported    \* history: startup_complete and startup_aborted calls

providerVars == <<faults, at, own, response, opcache, accepted, reported>>

Descriptors == {"socket", "cache", "lock"}

Response ==
    [type : {"CREATE", "ATTACH", "DECLINE", "ERROR", "ACK"}, fds : 0 .. 2,
     same_size : BOOLEAN, has_base : BOOLEAN, offset : Offsets]

NoResponse ==
    [type |-> "ACK", fds |-> 0, same_size |-> FALSE, has_base |-> FALSE,
     offset |-> 0]

(* The first seven fields are the client's; then the descriptors that are  *)
(* open, whether the memory is mapped, the state of the block that         *)
(* ahe_broker_allocate_segment allocates, and whether something was closed *)
(* or unmapped that was not there any more.                                *)
AHE_BROKER_CLIENT_INITIALIZER ==
    [fds |-> {}, mapping |-> FALSE, segment_allocation |-> FALSE,
     creator |-> FALSE, reattached |-> FALSE, acquired |-> FALSE,
     ready |-> FALSE,
     open |-> {}, mapped |-> FALSE, heap |-> "none", stray |-> FALSE]

Ownership ==
    [fds : SUBSET Descriptors, mapping : BOOLEAN,
     segment_allocation : BOOLEAN, creator : BOOLEAN, reattached : BOOLEAN,
     acquired : BOOLEAN, ready : BOOLEAN,
     open : SUBSET Descriptors, mapped : BOOLEAN,
     heap : {"none", "live", "freed", "twice"}, stray : BOOLEAN]

Allocator ==
    [active : BOOLEAN, finished : BOOLEAN, lock_file : BOOLEAN,
     locked : BOOLEAN, globals : Offsets \cup {0}]

Places ==
    {"create", "exchange", "map", "allocate", "validate", "cleanup",
     "refused", "native", "starting", "running", "aborted", "ended",
     "exited"}

(* The types of the process's state.                                       *)
ProviderTypeOK ==
    /\ faults \in FaultSets
    /\ at \in Places
    /\ own \in Ownership
    /\ response \in Response \cup {NoResponse}
    /\ opcache \in Allocator
    /\ accepted \in 0 .. 1 /\ reported \in 0 .. 2

Init ==
    /\ faults \in FaultSets
    /\ at = "create"
    /\ own = AHE_BROKER_CLIENT_INITIALIZER
    /\ response = NoResponse
    /\ opcache = [active |-> FALSE, finished |-> FALSE, lock_file |-> FALSE,
                  locked |-> FALSE, globals |-> 0]
    /\ accepted = 0 /\ reported = 0

Go(place) == at' = place /\ UNCHANGED faults

(* free() of the segment block.                                            *)
Free(o) ==
    [o EXCEPT !.heap = IF @ = "live" THEN "freed" ELSE "twice"]

(* The results munmap() can have.                                          *)
Unmaps == IF "munmap" \in faults THEN BOOLEAN ELSE {TRUE}

munmap(o, unmaps) ==
    [o EXCEPT !.mapped = @ /\ ~unmaps, !.stray = @ \/ ~o.mapped]

-----------------------------------------------------------------------------
(* The client's own cleanup.                                               *)

ahe_broker_client_close_descriptors(o) ==
    [o EXCEPT !.open = @ \ o.fds, !.fds = {},
              !.stray = @ \/ ~(o.fds \subseteq o.open)]

(* OPcache passes the segment of the client's own block ("owned") or a     *)
(* copy of it.  A munmap() that fails leaves the client as it was.         *)
ahe_broker_client_detach(o, owned, unmaps) ==
    IF unmaps
    THEN [munmap(o, TRUE) EXCEPT !.mapping = FALSE,
                                 !.segment_allocation = @ /\ ~owned]
    ELSE o

(* What ahe_broker_client_shutdown resets.                                 *)
Reset(o) ==
    [AHE_BROKER_CLIENT_INITIALIZER EXCEPT
        !.open = o.open, !.mapped = o.mapped, !.heap = o.heap,
        !.stray = o.stray]

(* Faulty variant: a creator frees the block, too.                         *)
ShutdownFrees(o, unmaps) ==
    LET unmapped == IF o.mapping THEN munmap(o, unmaps) ELSE o
        freed == IF o.segment_allocation THEN Free(unmapped) ELSE unmapped
    IN  Reset(ahe_broker_client_close_descriptors(freed))

(* DETACH is sent and its answer ignored; descriptors that came with the   *)
(* answer are closed when it is received.                                  *)
ahe_broker_client_shutdown(o, unmaps) ==
    LET unmapped == IF o.mapping THEN munmap(o, unmaps) ELSE o
        freed == IF o.reattached /\ o.segment_allocation
                 THEN Free(unmapped) ELSE unmapped
    IN  Reset(ahe_broker_client_close_descriptors(freed))

-----------------------------------------------------------------------------
(* ahe_create_segments and ahe_broker_client_acquire.                      *)

(* ALLOC_FAILURE with no segments.                                         *)
Fails(o) == own' = o /\ Go("refused") /\ response' = NoResponse

(* Not enabled, no AHE_BROKER_SOCKET, a force_restart_timeout, or no cache *)
(* key: the broker is not asked.                                           *)
NotConfigured ==
    /\ at = "create"
    /\ Fails(own)
    /\ UNCHANGED <<opcache, accepted, reported>>

(* A socket that fails a check after connect() is closed.                  *)
ahe_broker_connect ==
    /\ at = "create"
    /\ \/ /\ own' = [own EXCEPT !.fds = {"socket"}, !.open = {"socket"}]
          /\ Go("exchange")
          /\ UNCHANGED response
       \/ Fails(own)
    /\ UNCHANGED <<opcache, accepted, reported>>

(* What the two descriptors are good for once they have been received.     *)
Usable(r) ==
    /\ r.type \in {"CREATE", "ATTACH"}
    /\ r.fds = 2
    /\ r.same_size

BadMetadata(r) ==
    r.type = "ATTACH" /\ (~r.has_base \/ r.offset >= MappingSize)

(* The globals start within the memory and end outside of it: the client   *)
(* does not know their size, and leaves this to OPcache.                   *)
Misfit(r) ==
    r.offset < MappingSize /\ r.offset + GlobalsSize > MappingSize

(* The descriptors that come with a reply, and the process that has them.  *)
received_fds(count) ==
    {fd \in {"cache", "lock"} : count = 2 \/ (count = 1 /\ fd = "cache")}

Receives(count) == [own EXCEPT !.open = @ \cup received_fds(count)]

ahe_broker_close_received_fds(o, count) ==
    [o EXCEPT !.open = @ \ received_fds(count),
              !.stray = @ \/ ~(received_fds(count) \subseteq o.open)]

Refuses(count) ==
    ahe_broker_client_close_descriptors(
        ahe_broker_close_received_fds(Receives(count), count))

(* Nothing came, or a message or control data of the wrong form: whatever  *)
(* was received with it is closed.                                         *)
NoReply ==
    /\ at = "exchange"
    /\ \E count \in 0 .. 2 : Fails(Refuses(count))
    /\ UNCHANGED <<opcache, accepted, reported>>

(* Faulty variant: a third descriptor is accepted and forgotten.           *)
StoreAny ==
    [own EXCEPT !.fds = Descriptors, !.open = Descriptors \cup {"third"}]

Stored == [Receives(2) EXCEPT !.fds = Descriptors]

(* received_fds are closed one by one when the reply is refused, and are   *)
(* the client's when it is not.                                            *)
Reply ==
    /\ at = "exchange"
    /\ \E r \in Response :
          /\ Misfit(r) => "offset" \in faults
          /\ IF Usable(r) /\ ~BadMetadata(r)
             THEN own' = Stored /\ response' = r /\ Go("map")
             ELSE Fails(IF Usable(r)
                        THEN ahe_broker_client_close_descriptors(Stored)
                        ELSE Refuses(r.fds))
    /\ UNCHANGED <<opcache, accepted, reported>>

(* mmap() may fail or, without MAP_FIXED_NOREPLACE in the kernel, map      *)
(* somewhere else, which is undone.                                        *)
MapCache ==
    /\ at = "map"
    /\ \/ /\ own' = [own EXCEPT !.mapping = TRUE, !.mapped = TRUE]
          /\ Go("allocate")
          /\ UNCHANGED response
       \/ Fails(ahe_broker_client_close_descriptors(own))
       \/ /\ response.type = "ATTACH"
          /\ \E unmaps \in Unmaps :
                Fails([ahe_broker_client_close_descriptors(own) EXCEPT
                          !.mapped = ~unmaps])
    /\ UNCHANGED <<opcache, accepted, reported>>

(* Faulty variant: the memory stays mapped.                                *)
CallocFailsMapped(unmaps) ==
    [ahe_broker_client_close_descriptors(own) EXCEPT !.mapping = FALSE]

CallocFails(unmaps) ==
    [ahe_broker_client_close_descriptors(munmap(own, unmaps)) EXCEPT
        !.mapping = FALSE]

ahe_broker_allocate_segment ==
    /\ at = "allocate"
    /\ \/ /\ own' = [own EXCEPT !.segment_allocation = TRUE, !.heap = "live",
                                !.creator = response.type = "CREATE",
                                !.reattached = response.type = "ATTACH",
                                !.acquired = TRUE]
          /\ Go("validate")
          /\ UNCHANGED response
       \/ \E unmaps \in Unmaps : Fails(CallocFails(unmaps))
    /\ UNCHANGED <<opcache, accepted, reported>>

-----------------------------------------------------------------------------
(* zend_shared_alloc_startup.                                              *)

(* Faulty variant: only the first byte has to lie in the segment.          *)
ContainsStart(offset, size) == offset <= MappingSize

zend_shared_alloc_provider_segment_contains(offset, size) ==
    /\ offset <= MappingSize
    /\ size <= MappingSize - offset

zend_shared_alloc_provider_segments_are_valid ==
    own.segment_allocation /\ own.mapping

Acceptable ==
    /\ zend_shared_alloc_provider_segments_are_valid
    /\ "lock" \in own.fds
    /\ own.reattached => zend_shared_alloc_provider_segment_contains(
                             response.offset, GlobalsSize)

(* An accepted allocation of a creator is copied into the shared memory    *)
(* and freed; one that attaches finds the creator's copy there.            *)
zend_shared_alloc_provider_create_segments ==
    /\ at = "validate"
    /\ response' = NoResponse
    /\ IF Acceptable
       THEN /\ opcache' = [opcache EXCEPT
                             !.active = TRUE, !.finished = FALSE,
                             !.lock_file = TRUE,
                             !.globals = response.offset]
            /\ accepted' = accepted + 1
            /\ own' = IF own.reattached THEN own ELSE Free(own)
            /\ Go("starting")
       ELSE /\ Go("cleanup")
            /\ UNCHANGED <<own, opcache, accepted>>
    /\ UNCHANGED reported

(* zend_shared_alloc_try detaches and frees what was refused.              *)
zend_shared_alloc_try ==
    /\ at = "cleanup"
    /\ \E unmaps \in Unmaps :
          own' = Free(ahe_broker_client_detach(own, TRUE, unmaps))
    /\ Go("refused")
    /\ UNCHANGED <<response, opcache, accepted, reported>>

(* Without segments the provider is shut down, and OPcache takes memory    *)
(* and a lock file of its own.                                             *)
FallBack ==
    /\ at = "refused"
    /\ \E unmaps \in Unmaps : own' = ahe_broker_client_shutdown(own, unmaps)
    /\ Go("native")
    /\ UNCHANGED <<response, opcache, accepted, reported>>

-----------------------------------------------------------------------------
(* accel_post_startup, the request, and zend_shared_alloc_shutdown.        *)

Unreported == opcache.active /\ ~opcache.finished

(* A creator that publishes no longer has the block; when it cannot, it    *)
(* keeps a pointer to what OPcache has freed, and sends ABORT.             *)
zend_shared_alloc_provider_startup_complete ==
    /\ at = "starting"
    /\ Unreported
    /\ reported' = reported + 1
    /\ opcache' = [opcache EXCEPT !.finished = TRUE]
    /\ \/ own' = own
       \/ /\ own.creator
          /\ own' = [own EXCEPT !.ready = TRUE, !.segment_allocation = FALSE]
    /\ Go("running")
    /\ UNCHANGED <<response, accepted>>

zend_shared_alloc_provider_startup_aborted ==
    /\ at = "starting"
    /\ Unreported
    /\ reported' = reported + 1
    /\ opcache' = [opcache EXCEPT !.finished = TRUE]
    /\ Go("aborted")
    /\ UNCHANGED <<own, response, accepted>>

(* A lock that fails ends the process (zend_accel_error_noreturn).         *)
zend_shared_alloc_lock ==
    /\ at \in {"starting", "running"} /\ ~opcache.locked
    /\ \/ /\ "lock" \in own.fds
          /\ opcache' = [opcache EXCEPT !.locked = TRUE]
          /\ Go(at)
       \/ Go("exited") /\ UNCHANGED opcache
    /\ UNCHANGED <<own, response, accepted, reported>>

zend_shared_alloc_unlock ==
    /\ at \in {"starting", "running"} /\ opcache.locked
    /\ opcache' = [opcache EXCEPT !.locked = FALSE]
    /\ Go(at) \/ Go("exited")
    /\ UNCHANGED <<own, response, accepted, reported>>

(* Faulty variant: a startup that was not finished goes unreported.        *)
ReportNothing == UNCHANGED reported

(* Shutting down before the end of startup is a startup that was aborted.  *)
ReportUnfinished == reported' = reported + IF Unreported THEN 1 ELSE 0

(* Faulty variant: lock_file is not reset.                                 *)
DeactivateOnly == opcache' = [opcache EXCEPT !.active = FALSE]

Deactivate ==
    opcache' = [opcache EXCEPT !.active = FALSE, !.lock_file = FALSE,
                               !.finished = @ \/ opcache.active]

(* The segments detached are copies.                                       *)
zend_shared_alloc_shutdown ==
    /\ at \in {"starting", "running", "aborted"}
    /\ ReportUnfinished
    /\ \E first, second \in Unmaps :
          own' = ahe_broker_client_shutdown(
                     ahe_broker_client_detach(own, FALSE, first), second)
    /\ Deactivate
    /\ Go("ended")
    /\ UNCHANGED <<response, accepted>>

(* OPcache's own memory is not the provider's business.                    *)
NativeShutdown ==
    /\ at = "native"
    /\ Go("ended")
    /\ UNCHANGED <<own, response, opcache, accepted, reported>>

(* A startup that failed ends the process without a shutdown.              *)
ExitAborted ==
    /\ at = "aborted"
    /\ Go("exited")
    /\ UNCHANGED <<own, response, opcache, accepted, reported>>

ProviderStart ==
    \/ NoReply \/ Reply \/ MapCache
    \/ ahe_broker_allocate_segment
    \/ zend_shared_alloc_provider_create_segments
    \/ zend_shared_alloc_try \/ FallBack
    \/ zend_shared_alloc_provider_startup_complete
    \/ zend_shared_alloc_provider_startup_aborted
    \/ zend_shared_alloc_lock \/ zend_shared_alloc_unlock

ProviderEnd == zend_shared_alloc_shutdown \/ NativeShutdown \/ ExitAborted

Next == NotConfigured \/ ahe_broker_connect \/ ProviderStart \/ ProviderEnd

Spec == Init /\ [][Next]_providerVars

-----------------------------------------------------------------------------
(* Nothing is given back twice: the block is freed once, by OPcache or by  *)
(* the client ("OPcache owns and will free the containing temporary        *)
(* allocation."), and no descriptor is closed and no memory unmapped that  *)
(* the process no longer has, where another thread or library may have     *)
(* taken the number or the address.                                        *)
ReleasedOnce == own.heap # "twice" /\ ~own.stray

(* "Failure to attach must degrade safely, initially to ordinary OPcache": *)
(* when OPcache goes on with its own memory, and when it has shut down,    *)
(* every descriptor, the mapping and the block have been given back,       *)
(* wherever startup was left.  Only a failing munmap() leaves memory.      *)
NothingLeft ==
    at \in {"native", "ended"} =>
        /\ own.open = {}
        /\ own.heap # "live"
        /\ own.mapped => "munmap" \in faults

(* The allocator's globals that OPcache restores lie within the mapped     *)
(* memory to their last byte, whatever offset the broker sent.             *)
RestoredInside ==
    opcache.active /\ own.reattached =>
        own.mapped /\ opcache.globals + GlobalsSize <= MappingSize

(* OPcache's lock_file, which it also uses on its own for the accounting   *)
(* of requests, never names a descriptor that the provider has closed.     *)
LockFileOpen == opcache.lock_file => "lock" \in own.open

(* The provider hears of the end of every startup OPcache began with it,   *)
(* and once: a creator's generation is published or given up, not both.    *)
StartupReported ==
    /\ reported <= accepted
    /\ at \in {"running", "aborted", "ended"} => reported = accepted

=============================================================================
