------------------------------ MODULE AheBroker ------------------------------
(***************************************************************************)
(* The broker process of src/ahe_broker.c: one single-threaded poll loop   *)
(* that retains one cache generation and serves client connections on a    *)
(* private Unix SEQPACKET socket.                                          *)
(*                                                                         *)
(* The state is the broker's own (the generation, the client array, the    *)
(* poll array, the loop counters) and the part of the kernel it depends    *)
(* on: its descriptor table, the accept backlog and the two message queues *)
(* of every connection.  Peers are arbitrary: they connect, send any       *)
(* request in any order, read, and close whenever they like.               *)
(*                                                                         *)
(* One step of the broker is one iteration of an inner loop or one         *)
(* straight-line part of the outer loop.  A peer can act between any two   *)
(* of them; a peer that acts between two system calls of one step has the  *)
(* same effect as one that acts just before it.                            *)
(***************************************************************************)
EXTENDS Integers, Sequences, FiniteSets

CONSTANTS
    Conns,          \* the connections ever made to the broker
    Foreign,        \* those whose SO_PEERCRED is not the broker's user
    Requests,       \* the messages a peer may send
    Keys,           \* NUL-terminated, non-empty cache keys
    EmptyKey,       \* the cache_key of a zeroed message
    OpenKey,        \* a cache_key with no NUL in its 256 bytes
    MaxSize,        \* the largest mapping_size off_t and size_t can hold
    MaxClients,     \* --max-clients, 0 when the option is absent
    FdLimit,        \* descriptors the process may hold (RLIMIT_NOFILE)
    SendBuffer,     \* unread replies a socket holds before EAGAIN
    RequestQueue,   \* unread requests a socket holds
    Backlog,        \* connections waiting for accept4 (listen(fd, 16))
    MaxSends        \* bound: requests one peer sends in its life

RequestTypes == {"ACQUIRE", "READY", "ABORT", "DETACH", "OTHER", "MALFORMED"}

(* A datagram as the broker sees it.  MALFORMED has the wrong length,      *)
(* magic or version; OTHER is well formed with a type no case matches.     *)
Request ==
    [type : RequestTypes, mapping_size : Nat, mapping_base : Nat,
     shared_globals_offset : Nat, cache_key : Keys \cup {EmptyKey, OpenKey}]

ASSUME BrokerAssumption ==
    /\ Foreign \subseteq Conns
    /\ Requests \subseteq Request
    /\ EmptyKey \notin Keys /\ OpenKey \notin Keys /\ EmptyKey # OpenKey
    /\ MaxSize \in Nat /\ MaxClients \in Nat /\ MaxSends \in Nat
    /\ FdLimit \in Nat \ {0}
    /\ SendBuffer \in Nat \ {0}
    /\ RequestQueue \in Nat \ {0}
    /\ Backlog \in Nat \ {0}

-----------------------------------------------------------------------------
(* Kernel objects behind descriptors.                                      *)

NoFd == -1
Fd == 0 .. FdLimit - 1
NoId == 0

Object(kind, id) == [kind |-> kind, id |-> id]
Closed == Object("closed", NoId)
Listener == Object("listener", NoId)
Socket(c) == Object("socket", c)
Memfd(n) == Object("memfd", n)

Objects ==
    [kind : {"closed", "listener", "socket", "memfd"}, id : Conns \cup Nat]

FreeFds(table) == {f \in Fd : table[f] = Closed}

(* POSIX hands out the lowest descriptor that is not in use.               *)
IsNextFd(f, table) ==
    /\ f \in FreeFds(table)
    /\ \A g \in FreeFds(table) : f <= g

-----------------------------------------------------------------------------
(* The generation record and the replies.                                  *)

ahe_generation_init ==
    [state |-> "EMPTY", cache_fd |-> NoFd, lock_fd |-> NoFd,
     creator_fd |-> NoFd, mapping_size |-> 0, mapping_base |-> 0,
     shared_globals_offset |-> 0, cache_key |-> EmptyKey]

Generations ==
    [state : {"EMPTY", "INITIALIZING", "READY"},
     cache_fd : Fd \cup {NoFd}, lock_fd : Fd \cup {NoFd},
     creator_fd : Fd \cup {NoFd}, mapping_size : Nat, mapping_base : Nat,
     shared_globals_offset : Nat, cache_key : Keys \cup {EmptyKey}]

(* The descriptors of a reply travel as SCM_RIGHTS: what the peer gets is  *)
(* the kernel object, so a reply names objects.  NoId: no descriptors.     *)
Replies ==
    [type : {"CREATE", "ATTACH", "DECLINE", "ACK", "ERROR"},
     mapping_size : Nat, mapping_base : Nat, shared_globals_offset : Nat,
     cache : Nat, lock : Nat]

ahe_broker_message_init(type) ==
    [type |-> type, mapping_size |-> 0, mapping_base |-> 0,
     shared_globals_offset |-> 0, cache |-> NoId, lock |-> NoId]

VARIABLES
    pc,                 \* where main() is
    ahe_broker_stopping,
    exit_status,
    generation,
    clients,            \* the array clients[0 .. client_count - 1]
    handled_clients,
    listener_fd,
    poll_fds,           \* poll_fds[1 ..]: descriptor and revents per client
    listener_revents,   \* poll_fds[0].revents & POLLIN
    client_index,
    fd_table,           \* the kernel's descriptor table of the broker
    memfds,             \* memfd objects created so far
    backlog,            \* connections waiting for accept4
    link,               \* each connection as the broker's side sees it
    peer,               \* each connection's other end
    requests,           \* unread messages to the broker
    replies,            \* unread messages from the broker
    sends,              \* requests sent so far, at most MaxSends
    granted             \* descriptor pairs delivered to peers

brokerVars == <<pc, ahe_broker_stopping, exit_status, generation, clients,
                handled_clients, listener_fd, poll_fds, listener_revents,
                client_index>>
kernelVars == <<fd_table, memfds, backlog, link, peer, requests, replies,
                sends, granted>>
vars == <<pc, ahe_broker_stopping, exit_status, generation, clients,
          handled_clients, listener_fd, poll_fds, listener_revents,
          client_index, fd_table, memfds, backlog, link, peer, requests,
          replies, sends, granted>>

Client == [fd : Fd, handled_message : BOOLEAN]
PollEntry == [fd : Fd, revents : SUBSET {"IN", "HUP", "ERR"}]
Grant == [conn : Conns, type : {"CREATE", "ATTACH"}, cache : Nat, lock : Nat,
          mapping_base : Nat, shared_globals_offset : Nat]

(* The types of the broker's variables and of the kernel state it uses.    *)
TypeOK ==
    /\ pc \in {"loop", "trim", "setup", "poll", "serve", "drain", "exited"}
    /\ ahe_broker_stopping \in BOOLEAN
    /\ exit_status \in {"SUCCESS", "FAILURE"}
    /\ generation \in Generations
    /\ clients \in Seq(Client)
    /\ handled_clients \in Nat
    /\ listener_fd \in Fd \cup {NoFd}
    /\ poll_fds \in Seq(PollEntry)
    /\ listener_revents \in BOOLEAN
    /\ client_index \in Nat
    /\ fd_table \in [Fd -> Objects]
    /\ memfds \in Nat
    /\ backlog \in Seq(Conns)
    /\ link \in [Conns -> {"new", "backlog", "served", "dropped"}]
    /\ peer \in [Conns -> {"open", "closed", "reset"}]
    /\ requests \in [Conns -> Seq(Requests)]
    /\ replies \in [Conns -> Seq(Replies)]
    /\ sends \in [Conns -> Nat]
    /\ granted \in SUBSET Grant

(* main() up to the loop: the listener is bound and is the only            *)
(* descriptor besides the standard ones.                                   *)
Init ==
    /\ pc = "loop"
    /\ ahe_broker_stopping = FALSE
    /\ exit_status = "SUCCESS"
    /\ generation = ahe_generation_init
    /\ clients = <<>>
    /\ handled_clients = 0
    /\ listener_fd = 0
    /\ poll_fds = <<>>
    /\ listener_revents = FALSE
    /\ client_index = 0
    /\ fd_table = [f \in Fd |-> IF f = 0 THEN Listener ELSE Closed]
    /\ memfds = 0
    /\ backlog = <<>>
    /\ link = [c \in Conns |-> "new"]
    /\ peer = [c \in Conns |-> "open"]
    /\ requests = [c \in Conns |-> <<>>]
    /\ replies = [c \in Conns |-> <<>>]
    /\ sends = [c \in Conns |-> 0]
    /\ granted = {}

-----------------------------------------------------------------------------
(* Closing a connection.                                                   *)

ClientFds(cls) == {cls[i].fd : i \in 1 .. Len(cls)}
GenerationFds(gen) == {gen.cache_fd, gen.lock_fd} \ {NoFd}

(* The connection the i-th entry of the client array stands for.           *)
Conn(i) == fd_table[clients[i].fd].id

CloseFds(table, fds) == [f \in Fd |-> IF f \in fds THEN Closed ELSE table[f]]

ahe_generation_reset(gen, table) == CloseFds(table, GenerationFds(gen))

(* The last entry takes the place of the one that is removed.              *)
RemoveClient(cls, i) ==
    [j \in 1 .. Len(cls) - 1 |-> IF j = i THEN cls[Len(cls)] ELSE cls[j]]

IsCreator(gen, fd) == gen.state = "INITIALIZING" /\ gen.creator_fd = fd

Drop(c) ==
    /\ link' = [link EXCEPT ![c] = "dropped"]
    /\ requests' = [requests EXCEPT ![c] = <<>>]

(* Faulty variant: the generation is forgotten but its memfds stay open.   *)
CloseClientLeaks(i, cls, gen, table) ==
    LET fd == clients[i].fd
    IN  /\ clients' = RemoveClient(cls, i)
        /\ generation' = IF IsCreator(gen, fd) THEN ahe_generation_init
                                               ELSE gen
        /\ fd_table' = CloseFds(table, {fd})
        /\ Drop(Conn(i))

(* Faulty variant: the generation outlives its creator.                    *)
CloseClientKeeps(i, cls, gen, table) ==
    /\ clients' = RemoveClient(cls, i)
    /\ generation' = gen
    /\ fd_table' = CloseFds(table, {clients[i].fd})
    /\ Drop(Conn(i))

(* A creator that goes away before READY takes its generation with it.     *)
ahe_broker_close_client(i, cls, gen, table) ==
    LET fd == clients[i].fd
    IN  /\ clients' = RemoveClient(cls, i)
        /\ generation' = IF IsCreator(gen, fd) THEN ahe_generation_init
                                               ELSE gen
        /\ fd_table' = CloseFds(IF IsCreator(gen, fd)
                                THEN ahe_generation_reset(gen, table)
                                ELSE table, {fd})
        /\ Drop(Conn(i))

QuotaMet == MaxClients # 0 /\ handled_clients >= MaxClients

-----------------------------------------------------------------------------
(* The top of the outer loop, up to poll().                                *)

LoopStops ==
    /\ pc = "loop" /\ ahe_broker_stopping
    /\ pc' = "drain"
    /\ UNCHANGED <<ahe_broker_stopping, exit_status, generation, clients,
                   handled_clients, listener_fd, poll_fds, listener_revents,
                   client_index, kernelVars>>

LoopContinues ==
    /\ pc = "loop" /\ ~ahe_broker_stopping /\ ~QuotaMet
    /\ pc' = "setup"
    /\ UNCHANGED <<ahe_broker_stopping, exit_status, generation, clients,
                   handled_clients, listener_fd, poll_fds, listener_revents,
                   client_index, kernelVars>>

(* Once the quota is met the listener goes, and with it every connection   *)
(* that still waits to be accepted.                                        *)
CloseListener ==
    /\ listener_fd' = NoFd
    /\ backlog' = <<>>
    /\ link' = [c \in Conns |-> IF link[c] = "backlog" THEN "dropped"
                                                       ELSE link[c]]
    /\ requests' = [c \in Conns |-> IF link[c] = "backlog" THEN <<>>
                                                           ELSE requests[c]]

LoopClosesListener ==
    /\ pc = "loop" /\ ~ahe_broker_stopping /\ QuotaMet
    /\ pc' = "trim"
    /\ client_index' = Len(clients)
    /\ CloseListener
    /\ fd_table' = CloseFds(fd_table, {listener_fd})
    /\ UNCHANGED <<ahe_broker_stopping, exit_status, generation, clients,
                   handled_clients, poll_fds, listener_revents, memfds, peer,
                   replies, sends, granted>>

(* Faulty variant: connections that never sent anything are kept.          *)
TrimsNobody ==
    /\ pc = "trim" /\ client_index > 0
    /\ client_index' = client_index - 1
    /\ UNCHANGED <<pc, ahe_broker_stopping, exit_status, generation, clients,
                   handled_clients, listener_fd, poll_fds, listener_revents,
                   kernelVars>>

TrimClient ==
    /\ pc = "trim" /\ client_index > 0
    /\ client_index' = client_index - 1
    /\ IF clients[client_index].handled_message
       THEN UNCHANGED <<clients, generation, fd_table, link, requests>>
       ELSE ahe_broker_close_client(client_index, clients, generation,
                                    fd_table)
    /\ UNCHANGED <<pc, ahe_broker_stopping, exit_status, handled_clients,
                   listener_fd, poll_fds, listener_revents, memfds, backlog,
                   peer, replies, sends, granted>>

TrimDone ==
    /\ pc = "trim" /\ client_index = 0
    /\ pc' = IF clients = <<>> THEN "drain" ELSE "setup"
    /\ UNCHANGED <<ahe_broker_stopping, exit_status, generation, clients,
                   handled_clients, listener_fd, poll_fds, listener_revents,
                   client_index, kernelVars>>

Setup ==
    /\ pc = "setup"
    /\ pc' = "poll"
    /\ poll_fds' = [i \in 1 .. Len(clients) |->
                        [fd |-> clients[i].fd, revents |-> {}]]
    /\ UNCHANGED <<ahe_broker_stopping, exit_status, generation, clients,
                   handled_clients, listener_fd, listener_revents,
                   client_index, kernelVars>>

(* The poll array cannot grow, or poll() fails other than by a signal.     *)
SetupFails ==
    /\ pc = "setup"
    /\ pc' = "drain"
    /\ exit_status' = "FAILURE"
    /\ UNCHANGED <<ahe_broker_stopping, generation, clients, handled_clients,
                   listener_fd, poll_fds, listener_revents, client_index,
                   kernelVars>>

(* What poll() reports for a connection: a closed peer is readable (the    *)
(* end of file) and hung up; one that closed with replies unread is also   *)
(* in error.  HUP and ERR never come without IN.                           *)
Revents(c) ==
    (IF requests[c] # <<>> \/ peer[c] # "open" THEN {"IN"} ELSE {})
    \cup (IF peer[c] # "open" THEN {"HUP"} ELSE {})
    \cup (IF peer[c] = "reset" THEN {"ERR"} ELSE {})

(* poll() blocks until some descriptor has an event.                       *)
Poll ==
    LET ready == listener_fd # NoFd /\ backlog # <<>>
        entry(i) == [poll_fds[i] EXCEPT
                        !.revents = Revents(fd_table[poll_fds[i].fd].id)]
        entries == [i \in 1 .. Len(poll_fds) |-> entry(i)]
    IN  /\ pc = "poll"
        /\ ready \/ \E i \in 1 .. Len(poll_fds) : entries[i].revents # {}
        /\ pc' = "serve"
        /\ poll_fds' = entries
        /\ listener_revents' = ready
        /\ client_index' = Len(clients)
        /\ UNCHANGED <<ahe_broker_stopping, exit_status, generation, clients,
                       handled_clients, listener_fd, kernelVars>>

(* SIGINT or SIGTERM.  A blocked poll() returns EINTR and the loop starts  *)
(* over; anywhere else the handler only sets the flag.                     *)
ahe_broker_handle_signal ==
    /\ pc # "exited"
    /\ pc = "poll" \/ ~ahe_broker_stopping
    /\ ahe_broker_stopping' = TRUE
    /\ pc' = IF pc = "poll" THEN "loop" ELSE pc
    /\ UNCHANGED <<exit_status, generation, clients, handled_clients,
                   listener_fd, poll_fds, listener_revents, client_index,
                   kernelVars>>

-----------------------------------------------------------------------------
(* One client of the poll result: for (client_index = client_count; ...).  *)

(* Faulty variants: the index is not advanced; it is advanced twice.       *)
SameClient ==
    UNCHANGED <<client_index, pc, ahe_broker_stopping, exit_status,
                listener_fd, poll_fds, listener_revents, backlog, peer, sends>>

SkipsClient ==
    /\ client_index' = client_index - 2
    /\ UNCHANGED <<pc, ahe_broker_stopping, exit_status, listener_fd,
                   poll_fds, listener_revents, backlog, peer, sends>>

NextClient ==
    /\ client_index' = client_index - 1
    /\ UNCHANGED <<pc, ahe_broker_stopping, exit_status, listener_fd,
                   poll_fds, listener_revents, backlog, peer, sends>>

NoMessage == UNCHANGED <<handled_clients, memfds, replies, granted>>

Serving == pc = "serve" /\ client_index > 0

Events == poll_fds[client_index].revents

(* Faulty variant: the quota is only looked at between rounds.             *)
NeverOverQuota == FALSE

(* A connection whose first message comes after the quota is met.          *)
OverQuota == QuotaMet /\ ~clients[client_index].handled_message

SkipClient ==
    /\ Serving /\ Events = {}
    /\ NextClient /\ NoMessage
    /\ UNCHANGED <<clients, generation, fd_table, link, requests>>

RefuseClient ==
    /\ Serving /\ Events # {} /\ OverQuota
    /\ NextClient /\ NoMessage
    /\ ahe_broker_close_client(client_index, clients, generation, fd_table)

(* recv() yields a message unless the peer reset the connection, it is at  *)
(* its end, or the datagram has the wrong length, magic or version.        *)
HasMessage(c) ==
    /\ peer[c] # "reset"
    /\ requests[c] # <<>>
    /\ Head(requests[c]).type # "MALFORMED"

(* No message: the client is closed and does not count as handled.         *)
ReceiveFails ==
    /\ Serving /\ Events # {} /\ ~OverQuota
    /\ ~HasMessage(Conn(client_index))
    /\ NextClient /\ NoMessage
    /\ ahe_broker_close_client(client_index, clients, generation, fd_table)

(* ahe_broker_receive_message returned a message of this type.             *)
ahe_broker_receive_message(type) ==
    LET c == Conn(client_index)
    IN  /\ Serving /\ Events # {} /\ ~OverQuota
        /\ HasMessage(c)
        /\ Head(requests[c]).type = type
        /\ handled_clients' = IF clients[client_index].handled_message
                              THEN handled_clients
                              ELSE handled_clients + 1

Received == Head(requests[Conn(client_index)])
ClientFd == clients[client_index].fd

(* sendmsg(MSG_DONTWAIT) fails on a closed peer and on a full buffer.      *)
CanSend ==
    /\ peer[Conn(client_index)] = "open"
    /\ Len(replies[Conn(client_index)]) < SendBuffer

(* Faulty variant: sendmsg() without MSG_DONTWAIT.                         *)
SendBlocks(reply) ==
    LET c == Conn(client_index)
    IN  /\ peer[c] = "open" => CanSend
        /\ replies' = IF CanSend
                      THEN [replies EXCEPT ![c] = Append(@, reply)]
                      ELSE replies
        /\ UNCHANGED granted

ahe_broker_send_message(reply) ==
    LET c == Conn(client_index)
        grant == [conn |-> c, type |-> reply.type, cache |-> reply.cache,
                  lock |-> reply.lock, mapping_base |-> reply.mapping_base,
                  shared_globals_offset |-> reply.shared_globals_offset]
    IN  /\ replies' = IF CanSend
                      THEN [replies EXCEPT ![c] = Append(@, reply)]
                      ELSE replies
        /\ granted' = IF CanSend /\ reply.cache # NoId
                      THEN granted \cup {grant}
                      ELSE granted

(* The end of one client's turn: the handler left gen and table behind and *)
(* wants to keep the connection or not; HUP and ERR close it anyway.       *)
Finish(gen, table, keep_open) ==
    LET cls == [clients EXCEPT ![client_index].handled_message = TRUE]
        c == Conn(client_index)
    IN  /\ NextClient
        /\ \/ /\ keep_open /\ Events = {"IN"}
              /\ clients' = cls
              /\ generation' = gen
              /\ fd_table' = table
              /\ link' = link
              /\ requests' = [requests EXCEPT ![c] = Tail(@)]
           \/ /\ ~(keep_open /\ Events = {"IN"})
              /\ ahe_broker_close_client(client_index, cls, gen, table)

(* A reply that changes nothing else.                                      *)
Reply(type, keep_open) ==
    /\ ahe_broker_send_message(ahe_broker_message_init(type))
    /\ Finish(generation, fd_table, keep_open)
    /\ UNCHANGED memfds

-----------------------------------------------------------------------------
(* ACQUIRE.                                                                *)

ValidCreation(request) ==
    /\ request.mapping_size \in 1 .. MaxSize
    /\ request.cache_key \in Keys

(* Faulty variant: the cache key is not compared.                          *)
SizeMatches(request) == request.mapping_size = generation.mapping_size

ahe_generation_matches(request) ==
    /\ request.mapping_size = generation.mapping_size
    /\ request.cache_key = generation.cache_key

(* The descriptor table once one memfd, or both, have been created.        *)
Opened(cache_fd, lock_fd) ==
    [f \in Fd |-> CASE f = cache_fd -> Memfd(memfds + 1)
                    [] f = lock_fd  -> Memfd(memfds + 2)
                    [] OTHER        -> fd_table[f]]

(* A later memfd_create or ftruncate of ahe_generation_create fails: what  *)
(* the generation names by then is closed again.                           *)
CreationUndone ==
    /\ ValidCreation(Received)
    /\ \E cache_fd \in Fd, lock_fd \in Fd \cup {NoFd} :
          LET gen == [ahe_generation_init EXCEPT !.cache_fd = cache_fd,
                                                 !.lock_fd = lock_fd]
          IN  /\ IsNextFd(cache_fd, fd_table)
              /\ lock_fd # NoFd =>
                    IsNextFd(lock_fd, Opened(cache_fd, NoFd))
              /\ Finish(ahe_generation_init,
                        ahe_generation_reset(gen, Opened(cache_fd, lock_fd)),
                        CanSend)

(* The request is invalid, or the generation cannot be created.            *)
AcquireFails ==
    /\ ahe_broker_receive_message("ACQUIRE")
    /\ generation.state = "EMPTY"
    /\ ahe_broker_send_message(ahe_broker_message_init("ERROR"))
    /\ Finish(generation, fd_table, CanSend) \/ CreationUndone
    /\ UNCHANGED memfds

(* The reply to an ACQUIRE that hands out the descriptors of gen.          *)
Descriptors(gen, table) ==
    [type |-> IF gen.state = "READY" THEN "ATTACH" ELSE "CREATE",
     mapping_size |-> gen.mapping_size, mapping_base |-> gen.mapping_base,
     shared_globals_offset |-> gen.shared_globals_offset,
     cache |-> table[gen.cache_fd].id, lock |-> table[gen.lock_fd].id]

ahe_generation_create(cache_fd, lock_fd) ==
    [state |-> "INITIALIZING", cache_fd |-> cache_fd, lock_fd |-> lock_fd,
     creator_fd |-> ClientFd, mapping_size |-> Received.mapping_size,
     mapping_base |-> 0, shared_globals_offset |-> 0,
     cache_key |-> Received.cache_key]

AcquireCreates ==
    /\ ahe_broker_receive_message("ACQUIRE")
    /\ generation.state = "EMPTY"
    /\ ValidCreation(Received)
    /\ \E cache_fd, lock_fd \in Fd :
          LET opened == [fd_table EXCEPT ![cache_fd] = Memfd(memfds + 1)]
              table == [opened EXCEPT ![lock_fd] = Memfd(memfds + 2)]
              gen == ahe_generation_create(cache_fd, lock_fd)
          IN  /\ IsNextFd(cache_fd, fd_table)
              /\ IsNextFd(lock_fd, opened)
              /\ ahe_broker_send_message(Descriptors(gen, table))
              /\ Finish(gen, table, CanSend)
    /\ memfds' = memfds + 2

(* Faulty variant: a second client joins a generation under construction.  *)
DeclinedOnMismatch == ~ahe_generation_matches(Received)

(* The generation is somebody else's: another key or size, or not yet      *)
(* published by its creator.                                               *)
Declined ==
    \/ ~ahe_generation_matches(Received)
    \/ generation.state = "INITIALIZING" /\ generation.creator_fd # ClientFd

AcquireDeclined ==
    /\ ahe_broker_receive_message("ACQUIRE")
    /\ generation.state # "EMPTY"
    /\ Declined
    /\ Reply("DECLINE", CanSend)

AcquireGranted ==
    /\ ahe_broker_receive_message("ACQUIRE")
    /\ generation.state # "EMPTY"
    /\ ~Declined
    /\ ahe_broker_send_message(Descriptors(generation, fd_table))
    /\ Finish(generation, fd_table, CanSend)
    /\ UNCHANGED memfds

ahe_broker_handle_acquire ==
    AcquireFails \/ AcquireCreates \/ AcquireDeclined \/ AcquireGranted

-----------------------------------------------------------------------------
(* READY, ABORT, DETACH and everything else.                               *)

(* Faulty variant: anybody can publish, and publish again.                 *)
ReadyFromAnyone ==
    /\ Received.mapping_size = generation.mapping_size
    /\ Received.mapping_base # 0
    /\ Received.shared_globals_offset < Received.mapping_size

ReadyAccepted ==
    /\ IsCreator(generation, ClientFd)
    /\ Received.mapping_size = generation.mapping_size
    /\ Received.mapping_base # 0
    /\ Received.shared_globals_offset < Received.mapping_size

(* Faulty variant: the address is not recorded.                            *)
PublishedNowhere ==
    [generation EXCEPT !.state = "READY", !.creator_fd = NoFd]

Published ==
    [generation EXCEPT !.state = "READY", !.creator_fd = NoFd,
        !.mapping_base = Received.mapping_base,
        !.shared_globals_offset = Received.shared_globals_offset]

(* Faulty variant: published whatever becomes of the acknowledgement.      *)
PublishesUnacknowledged ==
    /\ ahe_broker_receive_message("READY")
    /\ \/ /\ ~ReadyAccepted
          /\ Reply("ERROR", CanSend)
       \/ /\ ReadyAccepted
          /\ ahe_broker_send_message(ahe_broker_message_init("ACK"))
          /\ Finish(Published, fd_table, CanSend)
          /\ UNCHANGED memfds

(* The acknowledgement goes first: when it cannot be sent the generation   *)
(* stays the creator's and is discarded with the connection.               *)
ahe_broker_handle_ready ==
    /\ ahe_broker_receive_message("READY")
    /\ \/ /\ ~ReadyAccepted
          /\ Reply("ERROR", CanSend)
       \/ /\ ReadyAccepted
          /\ ahe_broker_send_message(ahe_broker_message_init("ACK"))
          /\ Finish(IF CanSend THEN Published ELSE generation, fd_table,
                    CanSend)
          /\ UNCHANGED memfds

(* Faulty variant: any client's ABORT discards the generation.             *)
AbortDiscards ==
    /\ ahe_broker_receive_message("ABORT")
    /\ ahe_broker_send_message(ahe_broker_message_init("ACK"))
    /\ Finish(ahe_generation_init,
              ahe_generation_reset(generation, fd_table), CanSend)
    /\ UNCHANGED memfds

HandleAbort ==
    /\ ahe_broker_receive_message("ABORT")
    /\ ahe_broker_send_message(ahe_broker_message_init("ACK"))
    /\ \/ /\ IsCreator(generation, ClientFd)
          /\ Finish(ahe_generation_init,
                    ahe_generation_reset(generation, fd_table), CanSend)
       \/ /\ ~IsCreator(generation, ClientFd)
          /\ Finish(generation, fd_table, CanSend)
    /\ UNCHANGED memfds

HandleDetach ==
    /\ ahe_broker_receive_message("DETACH")
    /\ Reply("ACK", FALSE)

HandleOther ==
    /\ ahe_broker_receive_message("OTHER")
    /\ Reply("ERROR", FALSE)

ahe_broker_handle_client_message ==
    \/ ReceiveFails
    \/ ahe_broker_handle_acquire
    \/ ahe_broker_handle_ready
    \/ HandleAbort
    \/ HandleDetach
    \/ HandleOther

-----------------------------------------------------------------------------
(* The end of the outer loop: accept at most one connection.               *)

(* The poll array is rebuilt before it is read again.                      *)
NextIteration ==
    /\ pc' = "loop"
    /\ poll_fds' = <<>>
    /\ listener_revents' = FALSE
    /\ UNCHANGED <<ahe_broker_stopping, exit_status, generation,
                   handled_clients, listener_fd, client_index, memfds, peer,
                   replies, sends, granted>>

AllServed == pc = "serve" /\ client_index = 0

SkipAccept ==
    /\ AllServed /\ (QuotaMet \/ ~listener_revents)
    /\ NextIteration
    /\ UNCHANGED <<clients, fd_table, backlog, link, requests>>

Accepting == AllServed /\ ~QuotaMet /\ listener_revents

ahe_broker_add_client ==
    /\ Accepting
    /\ Head(backlog) \notin Foreign
    /\ \E f \in Fd :
          /\ IsNextFd(f, fd_table)
          /\ fd_table' = [fd_table EXCEPT ![f] = Socket(Head(backlog))]
          /\ clients' = Append(clients, [fd |-> f, handled_message |-> FALSE])
    /\ backlog' = Tail(backlog)
    /\ link' = [link EXCEPT ![Head(backlog)] = "served"]
    /\ NextIteration
    /\ UNCHANGED requests

(* SO_PEERCRED is another user's: accepted and closed at once.             *)
RejectForeign ==
    /\ Accepting
    /\ Head(backlog) \in Foreign
    /\ FreeFds(fd_table) # {}
    /\ Drop(Head(backlog))
    /\ backlog' = Tail(backlog)
    /\ NextIteration
    /\ UNCHANGED <<clients, fd_table>>

(* accept4 fails (EMFILE, ENFILE, ENOMEM), the client array cannot grow,   *)
(* or poll() reported an error on the listener instead of a connection.    *)
AcceptFails ==
    /\ AllServed /\ listener_fd # NoFd
    /\ pc' = "drain"
    /\ exit_status' = "FAILURE"
    /\ UNCHANGED <<ahe_broker_stopping, generation, clients, handled_clients,
                   listener_fd, poll_fds, listener_revents, client_index,
                   kernelVars>>

-----------------------------------------------------------------------------
(* Termination.                                                            *)

Disconnect ==
    /\ pc' = "exited"
    /\ clients' = <<>>
    /\ generation' = ahe_generation_init
    /\ listener_fd' = NoFd
    /\ backlog' = <<>>
    /\ poll_fds' = <<>>
    /\ listener_revents' = FALSE
    /\ client_index' = 0
    /\ link' = [c \in Conns |-> IF link[c] = "new" THEN "new" ELSE "dropped"]
    /\ requests' = [c \in Conns |-> <<>>]
    /\ UNCHANGED <<handled_clients, memfds, peer, replies, sends, granted>>

(* main() after the loop closes what its variables name, and nothing else. *)
Shutdown ==
    /\ pc = "drain"
    /\ Disconnect
    /\ fd_table' = CloseFds(ahe_generation_reset(generation, fd_table),
                            ClientFds(clients) \cup {listener_fd})
    /\ UNCHANGED <<ahe_broker_stopping, exit_status>>

(* SIGKILL: the kernel closes every descriptor.                            *)
Kill ==
    /\ pc # "exited"
    /\ Disconnect
    /\ fd_table' = CloseFds(fd_table, Fd)
    /\ exit_status' = "FAILURE"
    /\ UNCHANGED ahe_broker_stopping

-----------------------------------------------------------------------------
(* The other ends of the connections.                                      *)

Connected(c) == link[c] \in {"backlog", "served"}

PeerConnect(c) ==
    /\ link[c] = "new"
    /\ pc # "exited" /\ listener_fd # NoFd
    /\ Len(backlog) < Backlog
    /\ backlog' = Append(backlog, c)
    /\ link' = [link EXCEPT ![c] = "backlog"]
    /\ UNCHANGED <<brokerVars, fd_table, memfds, peer, requests, replies,
                   sends, granted>>

PeerSend(c, request) ==
    /\ Connected(c) /\ peer[c] = "open"
    /\ sends[c] < MaxSends
    /\ Len(requests[c]) < RequestQueue
    /\ requests' = [requests EXCEPT ![c] = Append(@, request)]
    /\ sends' = [sends EXCEPT ![c] = @ + 1]
    /\ UNCHANGED <<brokerVars, fd_table, memfds, backlog, link, peer,
                   replies, granted>>

PeerReceive(c) ==
    /\ peer[c] = "open" /\ replies[c] # <<>>
    /\ replies' = [replies EXCEPT ![c] = Tail(@)]
    /\ UNCHANGED <<brokerVars, fd_table, memfds, backlog, link, peer,
                   requests, sends, granted>>

(* Closing with replies unread resets the connection.                      *)
PeerClose(c) ==
    /\ link[c] # "new" /\ peer[c] = "open"
    /\ peer' = [peer EXCEPT ![c] = IF Connected(c) /\ replies[c] # <<>>
                                   THEN "reset" ELSE "closed"]
    /\ replies' = [replies EXCEPT ![c] = <<>>]
    /\ UNCHANGED <<brokerVars, fd_table, memfds, backlog, link, requests,
                   sends, granted>>

-----------------------------------------------------------------------------
BrokerStep ==
    \/ LoopStops \/ LoopContinues \/ LoopClosesListener
    \/ TrimClient \/ TrimDone
    \/ Setup \/ SetupFails \/ Poll
    \/ SkipClient \/ RefuseClient \/ ahe_broker_handle_client_message
    \/ SkipAccept \/ ahe_broker_add_client \/ RejectForeign \/ AcceptFails
    \/ Shutdown

PeerStep ==
    \E c \in Conns :
        \/ PeerConnect(c)
        \/ \E r \in Requests : PeerSend(c, r)
        \/ PeerReceive(c)
        \/ PeerClose(c)

Next == BrokerStep \/ ahe_broker_handle_signal \/ Kill \/ PeerStep

(* The broker runs whenever it can; nobody has to connect, send, read,     *)
(* close, signal or kill.                                                  *)
Fairness == WF_vars(BrokerStep)

Spec == Init /\ [][Next]_vars /\ Fairness

-----------------------------------------------------------------------------
(* Safety.                                                                 *)

(* Every entry of the client array holds a descriptor of its own, open on  *)
(* a connection that is being served, and every served connection has an   *)
(* entry: the swap in ahe_broker_close_client loses and doubles nothing.   *)
ClientsOwned ==
    /\ \A i, j \in 1 .. Len(clients) :
          clients[i].fd = clients[j].fd => i = j
    /\ \A i \in 1 .. Len(clients) :
          /\ fd_table[clients[i].fd].kind = "socket"
          /\ Conn(i) \in Conns
          /\ link[Conn(i)] = "served"
    /\ \A i, j \in 1 .. Len(clients) : Conn(i) = Conn(j) => i = j
    /\ \A c \in Conns : link[c] = "served" =>
          \E i \in 1 .. Len(clients) : Conn(i) = c

(* A generation that is not EMPTY holds two memfds of its own; an EMPTY    *)
(* one holds nothing and remembers nothing of its predecessor.             *)
GenerationOwned ==
    IF generation.state = "EMPTY" THEN generation = ahe_generation_init
    ELSE /\ generation.cache_fd # NoFd /\ generation.lock_fd # NoFd
         /\ generation.cache_fd # generation.lock_fd
         /\ fd_table[generation.cache_fd].kind = "memfd"
         /\ fd_table[generation.lock_fd].kind = "memfd"

(* Whatever is open in the broker's descriptor table is named by exactly   *)
(* one of its variables: no error path leaks a descriptor, none closes one *)
(* that is still in use, and nothing is left when main() returns.          *)
DescriptorsOwned ==
    /\ ClientsOwned
    /\ GenerationOwned
    /\ listener_fd # NoFd => fd_table[listener_fd] = Listener
    /\ \A f \in Fd : fd_table[f] # Closed =>
          f \in ClientFds(clients) \cup GenerationFds(generation)
                                   \cup {listener_fd}

(* While a generation is INITIALIZING its creator_fd is the descriptor of  *)
(* the connection that was handed that very memory to initialise, never a  *)
(* closed number the kernel gave to somebody else; in every other state it *)
(* names nobody.                                                           *)
CreatorConnected ==
    IF generation.state = "INITIALIZING"
    THEN \E i \in 1 .. Len(clients) :
            /\ clients[i].fd = generation.creator_fd
            /\ \E g \in granted :
                  /\ g.conn = Conn(i) /\ g.type = "CREATE"
                  /\ g.cache = fd_table[generation.cache_fd].id
                  /\ g.lock = fd_table[generation.lock_fd].id
    ELSE generation.creator_fd = NoFd

(* While clients are served from the last one down, and closed ones are    *)
(* replaced by the last, the entries still to be served are the ones       *)
(* poll() reported on: no client is served with another's events.          *)
PollAligned ==
    pc = "serve" =>
        /\ client_index <= Len(clients)
        /\ client_index <= Len(poll_fds)
        /\ \A i \in 1 .. client_index : clients[i].fd = poll_fds[i].fd

(* All who hold descriptors of one cache memory hold the same lock, were   *)
(* told one base address and one offset to attach with, and one connection *)
(* at most was ever told to initialise it; nobody attaches to memory that  *)
(* was not handed out for initialisation first.                            *)
GrantsAgree ==
    \A g, h \in granted : g.cache = h.cache =>
        /\ g.lock = h.lock
        /\ g.type = "CREATE" /\ h.type = "CREATE" => g.conn = h.conn
        /\ g.type = "ATTACH" /\ h.type = "ATTACH" =>
              /\ g.mapping_base = h.mapping_base
              /\ g.shared_globals_offset = h.shared_globals_offset
        /\ g.type = "ATTACH" =>
              /\ g.mapping_base # 0
              /\ \E k \in granted : k.cache = g.cache /\ k.type = "CREATE"

(* No more than --max-clients connections are ever answered, however many  *)
(* send at once and however late their first message is.                   *)
QuotaHeld ==
    MaxClients # 0 =>
        /\ handled_clients <= MaxClients
        /\ Cardinality({c \in Conns : replies[c] # <<>>}
                       \cup {g.conn : g \in granted}) <= MaxClients

(* A published generation is retained: no message, close, failure or       *)
(* refused connection changes it for as long as the broker runs.           *)
Retained ==
    [][generation.state = "READY" /\ pc' # "exited"
            => generation' = generation]_vars

(* A generation is published in the step that puts the acknowledgement on  *)
(* its creator's socket, never without: a creator that cannot be told      *)
(* takes its memory with it.                                               *)
PublishedAcknowledged ==
    [][generation.state = "INITIALIZING" /\ generation'.state = "READY" =>
            \E c \in Conns :
                /\ fd_table[generation.creator_fd] = Socket(c)
                /\ replies'[c] = Append(replies[c],
                                        ahe_broker_message_init("ACK"))]_vars

-----------------------------------------------------------------------------
(* Liveness.                                                               *)

(* A request that was sent is answered or its connection is closed,        *)
(* whatever the other peers do or fail to do: nobody can make the broker   *)
(* wait.                                                                   *)
RequestsServed ==
    \A c \in Conns : requests[c] # <<>> ~> requests[c] = <<>>

(* A broker with a quota ends by itself once the quota is met and those it *)
(* has answered have left, although others keep connecting, or keep open a *)
(* connection on which they never sent anything.                           *)
QuotaEnds ==
    /\ QuotaMet
    /\ \A i \in 1 .. Len(clients) :
          clients[i].handled_message => peer[Conn(i)] # "open"
    ~> pc = "exited"

(* "The broker ignored SIGTERM while a client was connected."              *)
(* (nix/checks.nix) is a failure there: a signal is followed by the end of *)
(* the broker.                                                             *)
StopsOnSignal == ahe_broker_stopping ~> pc = "exited"

=============================================================================
