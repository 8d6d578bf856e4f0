------------------------------ MODULE AheSystem ------------------------------
(***************************************************************************)
(* PHP processes that share one cache through the broker: the client       *)
(* library src/ahe_broker_client.c, the provider callbacks of              *)
(* src/abyssal_hyperglyph_engine.c, and the order in which the patched     *)
(* OPcache of patches/php/8.4/0001 calls them.                             *)
(*                                                                         *)
(* A process makes one connection in its life, so a process is a member of *)
(* Conns and everything it does on its socket is a Peer action of          *)
(* AheBroker: the broker does not notice that its peers behave.  Sends and *)
(* receives carry a timeout of one second, so a process waits for an       *)
(* answer or goes on without it; it may die at any moment.                 *)
(***************************************************************************)
EXTENDS AheBroker

CONSTANTS
    RequestedSize,  \* opcache.memory_consumption, the same for all
    GlobalsOffset,  \* smm_shared_globals within the mapping
    Addresses,      \* where mmap may put a creator's mapping
    MaxLocks        \* bound: times a request takes the cache lock

Message(type) ==
    [type |-> type, mapping_size |-> 0, mapping_base |-> 0,
     shared_globals_offset |-> 0, cache_key |-> EmptyKey]

Acquire(key) ==
    [Message("ACQUIRE") EXCEPT !.mapping_size = RequestedSize,
                               !.cache_key = key]

Ready(address) ==
    [Message("READY") EXCEPT !.mapping_size = RequestedSize,
                             !.mapping_base = address,
                             !.shared_globals_offset = GlobalsOffset]

(* What the processes send.                                                *)
ProcessRequests ==
    {Acquire(k) : k \in Keys} \cup {Ready(a) : a \in Addresses}
    \cup {Message("ABORT"), Message("DETACH")}

ASSUME SystemAssumption ==
    /\ IsFiniteSet(Conns)
    /\ RequestedSize \in 1 .. MaxSize
    /\ GlobalsOffset \in 0 .. RequestedSize - 1
    /\ Addresses \subseteq Nat \ {0}
    /\ MaxLocks \in Nat
    /\ ProcessRequests \subseteq Requests

VARIABLES
    at,         \* where each process is
    broker,     \* each process's ahe_broker_client
    locks,      \* times it took the cache lock
    built       \* history: memories whose OPcache startup was completed

procVars == <<at, broker, locks, built>>
systemVars == <<vars, procVars>>

(* NoId as cache: nothing is mapped.  cache_key is what the process asks   *)
(* for, and warned whether it reported that persistence was abandoned.     *)
AHE_BROKER_CLIENT_INITIALIZER ==
    [cache_key |-> EmptyKey, cache |-> NoId, lock |-> NoId, base |-> 0,
     creator |-> FALSE, reattached |-> FALSE, ready |-> FALSE,
     warned |-> FALSE]

BrokerClient ==
    [cache_key : Keys \cup {EmptyKey}, cache : Nat, lock : Nat,
     base : Addresses \cup {0}, creator : BOOLEAN, reattached : BOOLEAN,
     ready : BOOLEAN, warned : BOOLEAN]

Places ==
    {"idle", "connected", "acquiring", "failed", "starting", "restoring",
     "publishing", "abandon", "abandoning", "abort", "aborting", "running",
     "locked", "detach", "detaching", "leaving", "fallback", "gone"}

(* The types of the processes' state, besides the broker's.                *)
SystemTypeOK ==
    /\ TypeOK
    /\ at \in [Conns -> Places]
    /\ broker \in [Conns -> BrokerClient]
    /\ locks \in [Conns -> 0 .. MaxLocks]
    /\ built \subseteq [mapping : Nat, base : Addresses, key : Keys]

SystemInit ==
    /\ Init
    /\ at = [p \in Conns |-> "idle"]
    /\ broker = [p \in Conns |-> AHE_BROKER_CLIENT_INITIALIZER]
    /\ locks = [p \in Conns |-> 0]
    /\ built = {}

-----------------------------------------------------------------------------
(* The client's side of a message exchange: PeerReceive delivers the next  *)
(* reply, whatever request it answers.                                     *)

Go(p, place) == at' = [at EXCEPT ![p] = place]

(* send() fails once the broker has closed the connection.                 *)
SendFails(p) == ~Connected(p) /\ UNCHANGED vars

(* The second passes without a reply, or the broker closed the connection. *)
ReceiveNothing(p) == replies[p] = <<>> /\ UNCHANGED vars

-----------------------------------------------------------------------------
(* zend_shared_alloc_startup -> ahe_create_segments ->                     *)
(* ahe_broker_client_acquire.                                              *)

(* After connect() the peer's credentials and the path are checked, and a  *)
(* socket that fails the check is closed.                                  *)
ahe_broker_connect(p) ==
    /\ at[p] = "idle"
    /\ PeerConnect(p)
    /\ Go(p, "connected") \/ Go(p, "failed")
    /\ UNCHANGED <<broker, locks, built>>

(* The environment or the configuration rules persistence out, the cache   *)
(* key is too long, nobody listens, or the backlog stays full.  Any        *)
(* environment is possible, so nothing guards this.                        *)
ConnectFails(p) ==
    /\ at[p] = "idle"
    /\ Go(p, "fallback")
    /\ UNCHANGED <<vars, broker, locks, built>>

(* The configuration, and with it the key, is each process's own.          *)
SendAcquire(p) ==
    /\ at[p] = "connected"
    /\ \/ \E k \in Keys :
             /\ PeerSend(p, Acquire(k))
             /\ broker' = [broker EXCEPT ![p].cache_key = k]
             /\ Go(p, "acquiring")
       \/ SendFails(p) /\ Go(p, "failed") /\ UNCHANGED broker
    /\ UNCHANGED <<locks, built>>

(* Faulty variant: one that attaches takes any address, too.               *)
MapAnywhere(p, response, address) ==
    /\ response.type \in {"CREATE", "ATTACH"}
    /\ response.cache # NoId
    /\ response.mapping_size = RequestedSize
    /\ broker' = [broker EXCEPT ![p] =
          [@ EXCEPT
              !.cache = response.cache, !.lock = response.lock,
              !.base = address, !.creator = response.type = "CREATE",
              !.reattached = response.type = "ATTACH"]]
    /\ Go(p, IF response.type = "CREATE" THEN "starting" ELSE "restoring")

(* mmap of the received descriptor: a creator takes the address it gets,   *)
(* one that attaches needs the creator's (MAP_FIXED_NOREPLACE).            *)
Map(p, response, address) ==
    /\ response.type \in {"CREATE", "ATTACH"}
    /\ response.cache # NoId
    /\ response.mapping_size = RequestedSize
    /\ response.type = "ATTACH" =>
          /\ response.mapping_base = address
          /\ response.shared_globals_offset < response.mapping_size
    /\ broker' = [broker EXCEPT ![p] =
          [@ EXCEPT
              !.cache = response.cache, !.lock = response.lock,
              !.base = address, !.creator = response.type = "CREATE",
              !.reattached = response.type = "ATTACH"]]
    /\ Go(p, IF response.type = "CREATE" THEN "starting" ELSE "restoring")

ahe_broker_client_acquire(p) ==
    /\ at[p] = "acquiring"
    /\ PeerReceive(p)
    /\ \E address \in Addresses : Map(p, Head(replies[p]), address)
    /\ UNCHANGED <<locks, built>>

(* Faulty variant: no SO_RCVTIMEO, so only the end of file ends the wait.  *)
AcquireWaits(p) ==
    /\ at[p] = "acquiring"
    /\ PeerReceive(p) \/ (~Connected(p) /\ ReceiveNothing(p))
    /\ Go(p, "failed")
    /\ UNCHANGED <<broker, locks, built>>

(* Declined, refused, an invalid response, no response, or the mapping     *)
(* cannot be made.                                                         *)
AcquireGivesUp(p) ==
    /\ at[p] = "acquiring"
    /\ PeerReceive(p) \/ ReceiveNothing(p)
    /\ Go(p, "failed")
    /\ UNCHANGED <<broker, locks, built>>

(* The socket is closed and OPcache goes on with memory of its own.        *)
ahe_broker_client_close_descriptors(p) ==
    /\ at[p] = "failed"
    /\ PeerClose(p)
    /\ Go(p, "fallback")
    /\ UNCHANGED <<broker, locks, built>>

-----------------------------------------------------------------------------
(* accel_post_startup.                                                     *)

(* Faulty variant: the generation is published before it is complete.      *)
PublishesEarly(p) ==
    /\ at[p] = "starting"
    /\ PeerSend(p, Ready(broker[p].base))
    /\ Go(p, "publishing")
    /\ UNCHANGED <<broker, locks, built>>

(* A creator's startup is complete: ahe_startup_complete publishes it.     *)
ahe_startup_complete(p) ==
    /\ at[p] = "starting"
    /\ built' = built \cup {[mapping |-> broker[p].cache,
                              base |-> broker[p].base,
                              key |-> broker[p].cache_key]}
    /\ \/ /\ PeerSend(p, Ready(broker[p].base))
          /\ Go(p, "publishing")
       \/ SendFails(p) /\ Go(p, "abandon")
    /\ UNCHANGED <<broker, locks>>

(* client->ready: the broker acknowledged the generation.                  *)
ahe_broker_client_publish(p) ==
    /\ at[p] = "publishing"
    /\ PeerReceive(p)
    /\ IF Head(replies[p]).type = "ACK"
       THEN /\ broker' = [broker EXCEPT ![p].ready = TRUE]
            /\ Go(p, "running")
       ELSE UNCHANGED broker /\ Go(p, "abandon")
    /\ UNCHANGED <<locks, built>>

PublishGivesUp(p) ==
    /\ at[p] = "publishing"
    /\ ReceiveNothing(p)
    /\ Go(p, "abandon")
    /\ UNCHANGED <<broker, locks, built>>

(* Faulty variant: a shared lock (F_RDLCK).                                *)
NotExcluded(p) == FALSE

(* fcntl(F_SETLKW) waits while another process holds the lock.             *)
Excluded(p) ==
    \E q \in Conns \ {p} :
        at[q] = "locked" /\ broker[q].lock = broker[p].lock

(* One that attaches restores its state under the lock; startup_complete   *)
(* has nothing to publish.                                                 *)
Restore(p) ==
    /\ at[p] = "restoring"
    /\ ~Excluded(p)
    /\ Go(p, "running")
    /\ UNCHANGED <<vars, broker, locks, built>>

(* The shared globals cannot be initialised, or startup does not finish.   *)
StartupFails(p) ==
    /\ at[p] = "starting" \/ (at[p] = "restoring" /\ ~Excluded(p))
    /\ Go(p, "abort")
    /\ UNCHANGED <<vars, broker, locks, built>>

(* ahe_broker_client_abort after a failed publication ("abandon": the      *)
(* process warns and runs on) or a failed startup ("abort": it ends).      *)
ahe_broker_client_abort(p) ==
    /\ at[p] \in {"abandon", "abort"}
    /\ \/ /\ PeerSend(p, Message("ABORT"))
          /\ Go(p, IF at[p] = "abandon" THEN "abandoning" ELSE "aborting")
          /\ UNCHANGED broker
       \/ /\ SendFails(p)
          /\ Go(p, IF at[p] = "abandon" THEN "running" ELSE "leaving")
          /\ broker' = [broker EXCEPT ![p].warned = at[p] = "abandon"]
    /\ UNCHANGED <<locks, built>>

(* Whatever the answer is, and whether there is one, it is ignored.        *)
AbortAnswered(p) ==
    /\ at[p] \in {"abandoning", "aborting"}
    /\ PeerReceive(p) \/ ReceiveNothing(p)
    /\ Go(p, IF at[p] = "abandoning" THEN "running" ELSE "leaving")
    /\ broker' = [broker EXCEPT ![p].warned = at[p] = "abandoning"]
    /\ UNCHANGED <<locks, built>>

-----------------------------------------------------------------------------
(* The request, and the end of the process.                                *)

ahe_broker_client_lock(p) ==
    /\ at[p] = "running"
    /\ locks[p] < MaxLocks
    /\ ~Excluded(p)
    /\ locks' = [locks EXCEPT ![p] = @ + 1]
    /\ Go(p, "locked")
    /\ UNCHANGED <<vars, broker, built>>

ahe_broker_client_unlock(p) ==
    /\ at[p] = "locked"
    /\ Go(p, "running")
    /\ UNCHANGED <<vars, broker, locks, built>>

(* zend_shared_alloc_shutdown unmaps the segment ...                       *)
ahe_broker_client_detach(p) ==
    /\ at[p] = "running"
    /\ broker' = [broker EXCEPT ![p].cache = NoId, ![p].base = 0]
    /\ Go(p, "detach")
    /\ UNCHANGED <<vars, locks, built>>

(* ... and ahe_broker_client_shutdown says so to the broker and closes.    *)
ahe_broker_client_shutdown(p) ==
    /\ at[p] = "detach"
    /\ \/ PeerSend(p, Message("DETACH")) /\ Go(p, "detaching")
       \/ SendFails(p) /\ Go(p, "leaving")
    /\ UNCHANGED <<broker, locks, built>>

DetachAnswered(p) ==
    /\ at[p] = "detaching"
    /\ PeerReceive(p) \/ ReceiveNothing(p)
    /\ Go(p, "leaving")
    /\ UNCHANGED <<broker, locks, built>>

(* A process that leaves or dies: the kernel closes its socket, unmaps its *)
(* memory and drops its lock.                                              *)
Gone(p) ==
    /\ PeerClose(p)
    /\ broker' = [broker EXCEPT ![p] = AHE_BROKER_CLIENT_INITIALIZER]
    /\ Go(p, "gone")
    /\ UNCHANGED <<locks, built>>

Leave(p) == at[p] = "leaving" /\ Gone(p)

Crash(p) == at[p] \notin {"idle", "fallback", "gone"} /\ Gone(p)

-----------------------------------------------------------------------------
(* What a started process does by itself.                                  *)
ProcessStep(p) ==
    \/ SendAcquire(p)
    \/ ahe_broker_client_acquire(p) \/ AcquireGivesUp(p)
    \/ ahe_broker_client_close_descriptors(p)
    \/ ahe_startup_complete(p) \/ ahe_broker_client_publish(p)
    \/ PublishGivesUp(p)
    \/ Restore(p) \/ StartupFails(p)
    \/ ahe_broker_client_abort(p) \/ AbortAnswered(p)
    \/ ahe_broker_client_lock(p) \/ ahe_broker_client_unlock(p)
    \/ ahe_broker_client_detach(p) \/ ahe_broker_client_shutdown(p)
    \/ DetachAnswered(p)
    \/ Leave(p)

SystemNext ==
    \/ /\ BrokerStep \/ ahe_broker_handle_signal \/ Kill
       /\ UNCHANGED procVars
    \/ \E p \in Conns :
          \/ ahe_broker_connect(p) \/ ConnectFails(p)
          \/ ProcessStep(p)
          \/ Crash(p)

(* Only the processes are fair: the broker may stop answering at any time. *)
SystemSpec ==
    /\ SystemInit
    /\ [][SystemNext]_systemVars
    /\ \A p \in Conns : WF_systemVars(ProcessStep(p))

-----------------------------------------------------------------------------
Mapped(p) == broker[p].cache # NoId

(* "Every participant must use the same memory and lock objects.":         *)
(* processes that map one memory map it at one address and lock it with    *)
(* one lock, whatever became of the broker or of the creator meanwhile.    *)
SameObjects ==
    \A p, q \in Conns :
        Mapped(p) /\ Mapped(q) /\ broker[p].cache = broker[q].cache =>
            /\ broker[p].base = broker[q].base
            /\ broker[p].lock = broker[q].lock
            /\ broker[p].creator /\ broker[q].creator => p = q

(* "Clients may attach only after the creator publishes a ready state.":   *)
(* memory is attached to only when its OPcache startup was completed.      *)
AttachedBuilt ==
    \A p \in Conns : broker[p].reattached /\ Mapped(p)
        => \E b \in built : b.mapping = broker[p].cache

(* "reject size and layout mismatches" (docs/architecture.md): processes   *)
(* that share memory computed the same cache key, also when a generation   *)
(* was given up and another process had the next one made.                 *)
KeyRespected ==
    \A p, q \in Conns :
        Mapped(p) /\ Mapped(q) /\ broker[p].cache = broker[q].cache =>
            broker[p].cache_key = broker[q].cache_key

(* OPcache changes one memory from one process at a time.                  *)
OneWriter ==
    \A p, q \in Conns :
        /\ at[p] = "locked" /\ at[q] = "locked"
        /\ broker[p].cache = broker[q].cache
        => p = q

(* A process asks once, and the broker makes a memory and a lock for it.   *)
Mappings == 1 .. 2 * Cardinality(Conns)

Sharing == INSTANCE AheSharing WITH
    Procs <- Conns, NoMapping <- NoId, NoKey <- EmptyKey,
    mapping <- [p \in Conns |-> broker[p].cache],
    base <- [p \in Conns |-> broker[p].base],
    key <- [p \in Conns |-> IF Mapped(p) THEN broker[p].cache_key
                            ELSE EmptyKey],
    locked <- {p \in Conns : at[p] = "locked"}

(* The processes, the broker and every fault between them implement what   *)
(* docs/architecture.md promises: each step of a process that maps memory  *)
(* finds it fresh, or complete, of its own key and at its address.         *)
RefinesSharing == Sharing!SharingSpec

CurrentMemory ==
    IF generation.state = "EMPTY" THEN NoId
    ELSE fd_table[generation.cache_fd].id

(* A publication the creator saw acknowledged is kept: the broker still    *)
(* hands out that memory at that address, or is gone.                      *)
AcknowledgedRetained ==
    \A p \in Conns : broker[p].ready /\ Mapped(p) =>
        \/ pc = "exited"
        \/ /\ generation.state = "READY"
           /\ CurrentMemory = broker[p].cache
           /\ generation.mapping_base = broker[p].base

(* "persistence was abandoned because the OPcache generation could not be  *)
(* published": the memory of a process that says so is not handed out.     *)
AbandonedNotPublished ==
    \A p \in Conns : broker[p].warned /\ Mapped(p) =>
        ~(generation.state = "READY" /\ CurrentMemory = broker[p].cache)

(* "using process-local OPcache for this invocation": whether the broker   *)
(* answers, stalls or dies, a PHP process that connects gets to run its    *)
(* request, on shared memory or its own, or has ended.                     *)
StartupEnds ==
    \A p \in Conns :
        at[p] # "idle" ~> at[p] \in {"running", "locked", "fallback", "gone"}

(* A generation does not stay INITIALIZING under a broker that keeps       *)
(* running: its creator publishes it, gives it up, or dies and is noticed, *)
(* so that the next process to ask is not declined for ever.               *)
InitializationEnds ==
    WF_systemVars(BrokerStep /\ UNCHANGED procVars)
        => []<>(generation.state # "INITIALIZING")

=============================================================================
