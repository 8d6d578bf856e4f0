---------------------- MODULE AheBrokerRefinement_proofs ---------------------
(***************************************************************************)
(* The broker implements the abstract service, for any number of           *)
(* connections, any requests and any limits; what it granted agrees, and   *)
(* the quota holds.                                                        *)
(***************************************************************************)
EXTENDS AheBrokerRefinement, AheBroker_proofs, FiniteSetTheorems

USE DEF NoFd, NoId

(* The kernel objects that the generation record stands for.               *)
CacheOf == IF generation.cache_fd = NoFd THEN NoId
           ELSE fd_table[generation.cache_fd].id
LockOf == IF generation.lock_fd = NoFd THEN NoId
          ELSE fd_table[generation.lock_fd].id
OwnerOf == IF generation.creator_fd = NoFd THEN Nobody
           ELSE fd_table[generation.creator_fd].id

(* A client that poll() saw hung up or in error has a peer that is gone.   *)
EventsTrue ==
    pc = "serve" =>
        \A i \in 1 .. client_index :
            \/ poll_fds[i].revents \subseteq {"IN"}
            \/ peer[fd_table[poll_fds[i].fd].id] # "open"

-----------------------------------------------------------------------------
(* What a turn does to the descriptor table.                               *)

(* Sockets are where they were.                                            *)
SocketsIn(table) ==
    \A f \in Fd : fd_table[f].kind = "socket" => table[f] = fd_table[f]

(* Closing a client closes no other socket.                                *)
LEMMA CloseSockets ==
    ASSUME NEW i, NEW cls, NEW gen, NEW table,
           table \in [Fd -> Objects], GenerationOK(gen, table),
           SocketsIn(table), ahe_broker_close_client(i, cls, gen, table)
    PROVE  \A f \in Fd : f # clients[i].fd /\ fd_table[f].kind = "socket"
               => fd_table'[f] = fd_table[f]
<1> SUFFICES ASSUME NEW f \in Fd, f # clients[i].fd,
                    fd_table[f].kind = "socket"
             PROVE  fd_table'[f] = fd_table[f]
    OBVIOUS
<1>1. table[f] = fd_table[f]
      BY DEF SocketsIn
<1>2. f \notin GenerationFds(gen)
      BY <1>1 DEF GenerationOK, GenerationFds, ahe_generation_init
<1> QED BY <1>1, <1>2
        DEF ahe_broker_close_client, CloseFds, ahe_generation_reset

(* The same of the end of a turn.                                          *)
LEMMA FinishSockets ==
    ASSUME NEW gen, NEW table, NEW keep,
           table \in [Fd -> Objects], GenerationOK(gen, table),
           SocketsIn(table), Finish(gen, table, keep)
    PROVE  \A f \in Fd : f # ClientFd /\ fd_table[f].kind = "socket"
               => fd_table'[f] = fd_table[f]
<1>1. CASE fd_table' = table
      BY <1>1 DEF SocketsIn
<1> DEFINE cls == [clients EXCEPT ![client_index].handled_message = TRUE]
<1>2. CASE ahe_broker_close_client(client_index, cls, gen, table)
      BY <1>2, CloseSockets DEF ClientFd
<1> QED BY <1>1, <1>2 DEF Finish

(* The new generation of a creator is one that GenerationOK allows.        *)
LEMMA CreatedOK ==
    ASSUME BrokerInv, AcquireCreates,
           NEW cache_fd \in Fd, NEW lock_fd \in Fd,
           NEW table \in [Fd -> Objects],
           cache_fd # lock_fd,
           \A f \in Fd : table[f] =
              IF f = cache_fd THEN Memfd(memfds + 1)
              ELSE IF f = lock_fd THEN Memfd(memfds + 2)
              ELSE fd_table[f]
    PROVE  LET gen == ahe_generation_create(cache_fd, lock_fd)
           IN  /\ GenerationOK(gen, table)
               /\ gen.state = "INITIALIZING"
               /\ gen.cache_fd = cache_fd /\ gen.lock_fd = lock_fd
               /\ gen.creator_fd = ClientFd
               /\ gen.mapping_base = 0 /\ gen.shared_globals_offset = 0
               /\ table[cache_fd].id = memfds + 1
               /\ table[lock_fd].id = memfds + 2
<1> DEFINE gen == ahe_generation_create(cache_fd, lock_fd)
<1>1. /\ ahe_broker_receive_message("ACQUIRE") /\ ValidCreation(Received)
      BY DEF AcquireCreates
<1>2. Serving /\ Received \in Request
      BY <1>1, ReceivedRequest
<1>3. ClientFd \in Fd
      BY <1>2, ServingClient
<1>4. Received.mapping_size \in Nat /\ Received.cache_key \in Keys
      BY <1>1, <1>2 DEF ValidCreation, Request
<1>5. /\ gen \in Generations
      /\ gen.state = "INITIALIZING"
      /\ gen.cache_fd = cache_fd /\ gen.lock_fd = lock_fd
      /\ gen.creator_fd = ClientFd
      /\ gen.mapping_base = 0 /\ gen.shared_globals_offset = 0
      BY <1>3, <1>4 DEF ahe_generation_create, Generations
<1>6. /\ table[cache_fd].kind = "memfd" /\ table[lock_fd].kind = "memfd"
      /\ table[cache_fd].id = memfds + 1 /\ table[lock_fd].id = memfds + 2
      BY DEF Memfd, Object
<1>7. cache_fd # -1 /\ lock_fd # -1
      BY DEF Fd
<1> HIDE DEF gen
<1>8. GenerationOK(gen, table)
      BY <1>5, <1>6, <1>7 DEF GenerationOK
<1> QED BY <1>5, <1>6, <1>8 DEF gen

(* A turn in which a message is handled leaves a record and a table with   *)
(* every socket in place, answers, and ends.                               *)
Turn(type, reply, gen, table, keep) ==
    /\ ahe_broker_receive_message(type)
    /\ ahe_broker_send_message(reply)
    /\ Finish(gen, table, keep)
    /\ table \in [Fd -> Objects]
    /\ GenerationOK(gen, table)
    /\ SocketsIn(table)

(* Every handler is such a turn.                                           *)
LEMMA MessageTurn ==
    ASSUME BrokerInv,
           \/ ahe_broker_handle_acquire \/ ahe_broker_handle_ready
           \/ HandleAbort \/ HandleDetach \/ HandleOther
    PROVE  \E type, reply, gen, table, keep :
               Turn(type, reply, gen, table, keep)
<1>1. /\ fd_table \in [Fd -> Objects]
      /\ GenerationOK(generation, fd_table) /\ SocketsIn(fd_table)
      BY DEF BrokerInv, Owned, TableOK, SocketsIn
<1>2. ASSUME NEW type, NEW reply, NEW keep,
             ahe_broker_receive_message(type), ahe_broker_send_message(reply),
             Finish(generation, fd_table, keep)
      PROVE  \E t, r, gen, table, k : Turn(t, r, gen, table, k)
  <2>1. Turn(type, reply, generation, fd_table, keep)
        BY <1>1, <1>2 DEF Turn
  <2> QED BY <2>1
<1>3. ASSUME NEW type, ahe_broker_receive_message(type),
             NEW answer, NEW keep, Reply(answer, keep)
      PROVE  \E t, r, gen, table, k : Turn(t, r, gen, table, k)
  <2> DEFINE reply == ahe_broker_message_init(answer)
  <2>1. ahe_broker_send_message(reply) /\ Finish(generation, fd_table, keep)
        BY <1>3 DEF Reply
  <2> HIDE DEF reply
  <2> QED BY <1>2, <1>3, <2>1
<1>4. CASE AcquireFails \/ AcquireDeclined \/ HandleDetach \/ HandleOther
      BY <1>3, <1>4, AcquireFailsPlainly
         DEF AcquireDeclined, HandleDetach, HandleOther
<1>5. CASE AcquireGranted
  <2> DEFINE reply == Descriptors(generation, fd_table)
  <2>1. /\ ahe_broker_receive_message("ACQUIRE")
        /\ ahe_broker_send_message(reply)
        /\ Finish(generation, fd_table, CanSend)
        BY <1>5 DEF AcquireGranted
  <2> HIDE DEF reply
  <2> QED BY <1>2, <2>1
<1>6. CASE AcquireCreates
  <2>1. PICK cache_fd \in Fd, lock_fd \in Fd, table \in [Fd -> Objects] :
            LET gen == ahe_generation_create(cache_fd, lock_fd)
            IN  /\ cache_fd # lock_fd
                /\ fd_table[cache_fd] = Closed
                /\ fd_table[lock_fd] = Closed
                /\ \A f \in Fd : table[f] =
                      IF f = cache_fd THEN Memfd(memfds + 1)
                      ELSE IF f = lock_fd THEN Memfd(memfds + 2)
                      ELSE fd_table[f]
                /\ ahe_broker_send_message(Descriptors(gen, table))
                /\ Finish(gen, table, CanSend)
        BY <1>6, Allocated
  <2> DEFINE gen == ahe_generation_create(cache_fd, lock_fd)
  <2>2. GenerationOK(gen, table)
        BY <1>6, <2>1, CreatedOK
  <2>3. SocketsIn(table)
        BY <2>1, ClosedObject DEF SocketsIn
  <2>4. ahe_broker_receive_message("ACQUIRE")
        BY <1>6 DEF AcquireCreates
  <2>5. /\ ahe_broker_send_message(Descriptors(gen, table))
        /\ Finish(gen, table, CanSend)
        BY <2>1
  <2> HIDE DEF gen
  <2>6. Turn("ACQUIRE", Descriptors(gen, table), gen, table, CanSend)
        BY <2>1, <2>2, <2>3, <2>4, <2>5 DEF Turn
  <2> QED BY <2>6
<1>7. CASE ahe_broker_handle_ready
  <2> DEFINE reply == ahe_broker_message_init("ACK")
  <2>1. ahe_broker_receive_message("READY")
        BY <1>7 DEF ahe_broker_handle_ready
  <2>2. CASE Reply("ERROR", CanSend)
        BY <1>3, <2>1, <2>2
  <2>3. CASE /\ ahe_broker_send_message(reply)
             /\ Finish(generation, fd_table, CanSend)
    <3> HIDE DEF reply
    <3> QED BY <1>2, <2>1, <2>3
  <2>4. CASE /\ ReadyAccepted
             /\ ahe_broker_send_message(reply)
             /\ Finish(Published, fd_table, CanSend)
    <3>1. Received \in Request
          BY <2>1, ReceivedRequest
    <3>2. generation \in Generations /\ generation.state = "INITIALIZING"
          BY <1>1, <2>4 DEF GenerationOK, ReadyAccepted, IsCreator
    <3>3. /\ Published \in Generations /\ Published.state = "READY"
          /\ Published.cache_fd = generation.cache_fd
          /\ Published.lock_fd = generation.lock_fd
          BY <3>1, <3>2 DEF Published, Generations, Request
    <3>4. GenerationOK(Published, fd_table)
          BY <1>1, <3>2, <3>3 DEF GenerationOK
    <3> HIDE DEF reply
    <3>5. Turn("READY", reply, Published, fd_table, CanSend)
          BY <1>1, <2>1, <2>4, <3>4 DEF Turn
    <3> QED BY <3>5
  <2> QED BY <1>7, <2>2, <2>3, <2>4 DEF ahe_broker_handle_ready
<1>8. CASE HandleAbort
  <2> DEFINE reply == ahe_broker_message_init("ACK")
             table == ahe_generation_reset(generation, fd_table)
  <2>1. /\ ahe_broker_receive_message("ABORT")
        /\ ahe_broker_send_message(reply)
        /\ \/ Finish(generation, fd_table, CanSend)
           \/ Finish(ahe_generation_init, table, CanSend)
        BY <1>8 DEF HandleAbort
  <2>2. Owned(clients, ahe_generation_init, table, link, listener_fd)
        BY ResetLemma DEF BrokerInv
  <2>3. table \in [Fd -> Objects] /\ GenerationOK(ahe_generation_init, table)
        BY <2>2 DEF Owned, TableOK
  <2>4. SocketsIn(table)
        BY <1>1 DEF SocketsIn, ahe_generation_reset, CloseFds,
           GenerationFds, GenerationOK, ahe_generation_init
  <2> HIDE DEF reply, table
  <2>5. CASE Finish(generation, fd_table, CanSend)
        BY <1>2, <2>1, <2>5
  <2>6. CASE Finish(ahe_generation_init, table, CanSend)
    <3>1. Turn("ABORT", reply, ahe_generation_init, table, CanSend)
          BY <2>1, <2>3, <2>4, <2>6 DEF Turn
    <3> QED BY <3>1
  <2> QED BY <2>1, <2>5, <2>6
<1> QED BY <1>4, <1>5, <1>6, <1>7, <1>8 DEF ahe_broker_handle_acquire

(* A turn closes no socket but its own client's.                           *)
LEMMA TurnSockets ==
    ASSUME BrokerInv,
           \/ SkipClient \/ RefuseClient \/ ahe_broker_handle_client_message
    PROVE  \A f \in Fd : f # ClientFd /\ fd_table[f].kind = "socket"
               => fd_table'[f] = fd_table[f]
<1>1. CASE SkipClient
      BY <1>1 DEF SkipClient
<1>2. CASE RefuseClient \/ ReceiveFails
  <2>1. /\ fd_table \in [Fd -> Objects]
        /\ GenerationOK(generation, fd_table) /\ SocketsIn(fd_table)
        BY DEF BrokerInv, Owned, TableOK, SocketsIn
  <2> QED BY <1>2, <2>1, CloseSockets
          DEF RefuseClient, ReceiveFails, ClientFd
<1>3. CASE \/ ahe_broker_handle_acquire \/ ahe_broker_handle_ready
           \/ HandleAbort \/ HandleDetach \/ HandleOther
  <2>1. PICK type, reply, gen, table, keep :
            Turn(type, reply, gen, table, keep)
        BY <1>3, MessageTurn
  <2>2. /\ table \in [Fd -> Objects] /\ GenerationOK(gen, table)
        /\ SocketsIn(table) /\ Finish(gen, table, keep)
        BY <2>1 DEF Turn
  <2> QED BY <2>2, FinishSockets
<1> QED BY <1>1, <1>2, <1>3 DEF ahe_broker_handle_client_message

-----------------------------------------------------------------------------
(* What poll() reported stays true until the client is served.             *)
LEMMA EventsNext ==
    ASSUME BrokerInv, EventsTrue, [Next]_vars
    PROVE  EventsTrue'
<1>1. CASE \/ LoopStops \/ LoopContinues \/ LoopClosesListener \/ TrimClient
           \/ TrimDone \/ Setup \/ SetupFails \/ SkipAccept \/ AcceptFails
           \/ ahe_broker_add_client \/ RejectForeign \/ Shutdown \/ Kill
      BY <1>1 DEF LoopStops, LoopContinues, LoopClosesListener, TrimClient,
         TrimDone, Setup, SetupFails, SkipAccept, AcceptFails,
         ahe_broker_add_client, RejectForeign, NextIteration, Shutdown, Kill,
         Disconnect, EventsTrue
<1>2. CASE Poll
  <2> DEFINE entry(i) == [poll_fds[i] EXCEPT
                              !.revents = Revents(fd_table[poll_fds[i].fd].id)]
  <2>1. /\ pc = "poll"
        /\ poll_fds' = [i \in 1 .. Len(poll_fds) |-> entry(i)]
        /\ client_index' = Len(clients)
        /\ UNCHANGED <<peer, fd_table, clients>>
        BY <1>2 DEF Poll, kernelVars
  <2>2. Len(poll_fds) = Len(clients) /\ poll_fds \in Seq(PollEntry)
        BY <2>1 DEF BrokerInv, LoopOK, RestOK
  <2>3. ASSUME NEW i \in 1 .. client_index'
        PROVE  /\ poll_fds'[i].fd = poll_fds[i].fd
               /\ poll_fds'[i].revents =
                      Revents(fd_table[poll_fds[i].fd].id)
    <3>1. i \in 1 .. Len(poll_fds) /\ poll_fds[i] \in PollEntry
          BY <2>1, <2>2
    <3>2. poll_fds'[i] = entry(i)
          BY <2>1, <3>1
    <3> QED BY <3>1, <3>2 DEF PollEntry
  <2>4. ASSUME NEW c PROVE peer[c] = "open" => Revents(c) \subseteq {"IN"}
        BY DEF Revents
  <2>5. ASSUME NEW i \in 1 .. client_index'
        PROVE  \/ poll_fds'[i].revents \subseteq {"IN"}
               \/ peer'[fd_table'[poll_fds'[i].fd].id] # "open"
    <3>1. peer' = peer /\ fd_table' = fd_table
          BY <2>1
    <3> QED BY <3>1, <2>3, <2>4
  <2> QED BY <2>5 DEF EventsTrue
<1>3. CASE \/ SkipClient \/ RefuseClient \/ ahe_broker_handle_client_message
  <2>1. Serving /\ NextClient
        BY <1>3, AcquireFailsPlainly
           DEF SkipClient, RefuseClient, ReceiveFails,
           ahe_broker_handle_client_message, ahe_broker_handle_acquire,
           AcquireCreates, AcquireDeclined, AcquireGranted, HandleAbort,
           ahe_broker_handle_ready, HandleDetach, HandleOther, Reply, Finish,
           ahe_broker_receive_message
  <2>2. /\ client_index \in 1 .. Len(clients) /\ client_index <= Len(poll_fds)
        /\ clients \in Seq(Client)
        /\ \A i \in 1 .. client_index : clients[i].fd = poll_fds[i].fd
        BY <2>1, ServingClient
  <2>3. /\ pc = "serve" /\ client_index' = client_index - 1
        /\ poll_fds' = poll_fds /\ peer' = peer
        BY <2>1 DEF NextClient, Serving
  <2>4. ASSUME NEW i \in 1 .. client_index - 1
        PROVE  fd_table'[poll_fds[i].fd] = fd_table[poll_fds[i].fd]
    <3>1. i \in 1 .. Len(clients) /\ i # client_index /\ i \in 1 .. client_index
          BY <2>2
    <3>2. /\ fd_table[clients[i].fd].kind = "socket"
          /\ clients[i].fd # ClientFd
          BY <2>2, <3>1 DEF BrokerInv, Owned, ClientsOK, ClientFd
    <3>3. clients[i].fd \in Fd
          BY <2>2, <3>1, EntryFd
    <3> QED BY <1>3, <2>2, <3>1, <3>2, <3>3, TurnSockets
  <2>5. \A i \in 1 .. client_index - 1 : i \in 1 .. client_index
        BY <2>2
  <2> QED BY <2>3, <2>4, <2>5 DEF EventsTrue
<1>4. CASE ahe_broker_handle_signal \/ UNCHANGED vars
      BY <1>4 DEF ahe_broker_handle_signal, kernelVars, vars, EventsTrue
<1>5. CASE PeerStep
  <2>1. PICK c \in Conns :
            \/ PeerConnect(c)
            \/ \E r \in Requests : PeerSend(c, r)
            \/ PeerReceive(c)
            \/ PeerClose(c)
        BY <1>5 DEF PeerStep
  <2>2. UNCHANGED <<pc, client_index, poll_fds, fd_table>>
        BY <2>1 DEF PeerConnect, PeerSend, PeerReceive, PeerClose, brokerVars
  <2>3. \A d : peer[d] # "open" => peer'[d] # "open"
    <3>1. CASE PeerClose(c)
      <4>1. peer \in [Conns -> {"open", "closed", "reset"}]
            BY DEF BrokerInv, RestOK
      <4>2. /\ peer[c] = "open"
            /\ peer' = [peer EXCEPT ![c] = IF Connected(c) /\ replies[c] # <<>>
                                           THEN "reset" ELSE "closed"]
            BY <3>1 DEF PeerClose
      <4> QED BY <4>1, <4>2
    <3>2. CASE peer' = peer
          BY <3>2
    <3> QED BY <2>1, <3>1, <3>2 DEF PeerConnect, PeerSend, PeerReceive
  <2> QED BY <2>2, <2>3 DEF EventsTrue
<1> QED BY <1>1, <1>2, <1>3, <1>4, <1>5 DEF Next, BrokerStep

(* A client that can still be answered was reported readable and no more.  *)
LEMMA SendableEvents ==
    ASSUME BrokerInv, EventsTrue, Serving, Events # {}, CanSend
    PROVE  Events = {"IN"}
<1>1. /\ client_index \in 1 .. Len(clients)
      /\ \A i \in 1 .. client_index : clients[i].fd = poll_fds[i].fd
      BY ServingClient
<1>2. client_index \in 1 .. client_index
      BY <1>1
<1>3. peer[fd_table[poll_fds[client_index].fd].id] = "open"
      BY <1>1, <1>2 DEF CanSend, Conn
<1>4. Events \subseteq {"IN"}
      BY <1>2, <1>3 DEF EventsTrue, Serving, Events
<1> QED BY <1>4

-----------------------------------------------------------------------------
(* Every step of the broker as a step of the service it provides.          *)

Objective == <<CacheOf, LockOf, OwnerOf>>

Delivered(c, type) ==
    [conn |-> c, type |-> type, cache |-> CacheOf, lock |-> LockOf,
     mapping_base |-> generation.mapping_base,
     shared_globals_offset |-> generation.shared_globals_offset]

Same ==
    /\ generation' = generation /\ Objective' = Objective
    /\ granted' = granted /\ memfds' = memfds
    /\ pc = "exited" <=> pc' = "exited"

Discarded ==
    /\ generation' = ahe_generation_init /\ generation.state # "READY"
    /\ granted' = granted /\ memfds' \in {memfds, memfds + 2}
    /\ pc # "exited" /\ pc' # "exited"

CreatedFor(c) ==
    /\ generation.state = "EMPTY"
    /\ generation'.state = "INITIALIZING"
    /\ generation'.mapping_base = 0 /\ generation'.shared_globals_offset = 0
    /\ Objective' = <<memfds + 1, memfds + 2, c>>
    /\ granted' = granted \cup {Delivered(c, "CREATE")'}
    /\ memfds' = memfds + 2
    /\ pc # "exited" /\ pc' # "exited"

AttachedFor(c) ==
    /\ generation.state = "READY"
    /\ generation' = generation /\ Objective' = Objective
    /\ granted' = granted \cup {Delivered(c, "ATTACH")}
    /\ memfds' = memfds
    /\ pc # "exited" /\ pc' # "exited"

PublishedNow ==
    /\ generation.state = "INITIALIZING" /\ generation'.state = "READY"
    /\ generation'.mapping_base \in Nat \ {0}
    /\ generation'.shared_globals_offset \in Nat
    /\ Objective' = <<CacheOf, LockOf, Nobody>>
    /\ granted' = granted /\ memfds' = memfds
    /\ pc # "exited" /\ pc' # "exited"

Stopped ==
    /\ generation' = ahe_generation_init
    /\ granted' = granted /\ memfds' = memfds
    /\ pc # "exited" /\ pc' = "exited"

ServiceStep ==
    \/ Same \/ Discarded \/ PublishedNow \/ Stopped
    \/ \E c \in Conns : CreatedFor(c) \/ AttachedFor(c)

(* The record before and after it is published.                            *)
RecordOK ==
    /\ generation.state = "INITIALIZING" =>
          /\ generation.mapping_base = 0
          /\ generation.shared_globals_offset = 0
    /\ generation.state = "READY" => generation.mapping_base # 0

(* What was granted of the present generation, and of all of them.         *)
GrantsOK ==
    /\ \A g \in granted :
          /\ g.cache \in 1 .. memfds
          /\ g.type = "CREATE" =>
                g.mapping_base = 0 /\ g.shared_globals_offset = 0
          /\ g.type = "ATTACH" => g.mapping_base # 0
    /\ generation.state # "EMPTY" =>
          /\ CacheOf \in 1 .. memfds
          /\ \A g \in granted : g.cache = CacheOf => g.lock = LockOf
          /\ \E g \in granted : g.cache = CacheOf /\ g.type = "CREATE"
    /\ generation.state = "INITIALIZING" =>
          \A g \in granted : g.cache = CacheOf =>
              g.type = "CREATE" /\ g.conn = OwnerOf
    /\ generation.state = "READY" =>
          \A g \in granted : g.cache = CacheOf /\ g.type = "ATTACH" =>
              /\ g.mapping_base = generation.mapping_base
              /\ g.shared_globals_offset = generation.shared_globals_offset

ServiceInv ==
    /\ BrokerInv /\ EventsTrue /\ RecordOK /\ GrantsOK /\ GrantsAgree

(* The descriptors the generation record gen names.                        *)
Named(gen) == {gen.cache_fd, gen.lock_fd, gen.creator_fd}

(* A turn that ends with the record gen keeps what gen names, or discards  *)
(* it with its creator.                                                    *)
LEMMA CloseObjects ==
    ASSUME BrokerInv, NEW i \in 1 .. Len(clients), NEW cls, NEW gen,
           GenerationOK(gen, fd_table),
           gen.state # "INITIALIZING" => gen.creator_fd = -1,
           ahe_broker_close_client(i, cls, gen, fd_table)
    PROVE  \/ gen.state = "INITIALIZING" /\ generation' = ahe_generation_init
           \/ /\ generation' = gen
              /\ \A f \in Fd \cap Named(gen) : fd_table'[f] = fd_table[f]
<1> DEFINE fd == clients[i].fd
<1>1. fd_table[fd].kind = "socket"
      BY DEF BrokerInv, Owned, ClientsOK
<1>2. CASE IsCreator(gen, fd)
      BY <1>2 DEF ahe_broker_close_client, IsCreator
<1>3. CASE ~IsCreator(gen, fd)
  <2>1. generation' = gen /\ fd_table' = CloseFds(fd_table, {fd})
        BY <1>3 DEF ahe_broker_close_client
  <2>2. \A f \in Fd : f # fd => fd_table'[f] = fd_table[f]
        BY <2>1 DEF CloseFds
  <2>3. \A f \in Fd \cap Named(gen) : f # fd
    <3>1. \A f \in Fd : f # -1
          BY DEF Fd
    <3>2. gen.creator_fd \in Fd => gen.creator_fd # fd
          BY <1>3, <3>1 DEF IsCreator
    <3>3. /\ gen.cache_fd \in Fd => gen.cache_fd # fd
          /\ gen.lock_fd \in Fd => gen.lock_fd # fd
          BY <1>1, <3>1 DEF GenerationOK, ahe_generation_init
    <3> QED BY <3>2, <3>3 DEF Named
  <2> QED BY <2>1, <2>2, <2>3
<1> QED BY <1>2, <1>3

(* The same of the end of a turn in which a message was handled.           *)
LEMMA FinishObjects ==
    ASSUME BrokerInv, Serving, NEW gen, NEW keep,
           GenerationOK(gen, fd_table),
           gen.state # "INITIALIZING" => gen.creator_fd = -1,
           Finish(gen, fd_table, keep)
    PROVE  \/ gen.state = "INITIALIZING" /\ generation' = ahe_generation_init
           \/ /\ generation' = gen
              /\ \A f \in Fd \cap Named(gen) : fd_table'[f] = fd_table[f]
<1> DEFINE cls == [clients EXCEPT ![client_index].handled_message = TRUE]
<1>1. client_index \in 1 .. Len(clients)
      BY ServingClient
<1>2. CASE generation' = gen /\ fd_table' = fd_table
      BY <1>2
<1>3. CASE ahe_broker_close_client(client_index, cls, gen, fd_table)
  <2> HIDE DEF cls
  <2> QED BY <1>1, <1>3, CloseObjects
<1> QED BY <1>2, <1>3 DEF Finish

(* The present generation names descriptors, and a creator only while it   *)
(* is under construction.                                                  *)
LEMMA PresentOK ==
    ASSUME BrokerInv
    PROVE  /\ GenerationOK(generation, fd_table)
           /\ generation.state # "INITIALIZING" => generation.creator_fd = -1
           /\ generation.cache_fd \in Fd \cup {-1}
           /\ generation.lock_fd \in Fd \cup {-1}
           /\ generation.creator_fd \in Fd \cup {-1}
<1>1. GenerationOK(generation, fd_table) /\ generation \in Generations
      BY DEF BrokerInv, Owned, GenerationOK
<1>2. /\ generation.cache_fd \in Fd \cup {-1}
      /\ generation.lock_fd \in Fd \cup {-1}
      /\ generation.creator_fd \in Fd \cup {-1}
      BY <1>1 DEF Generations
<1>3. generation.state # "INITIALIZING" => generation.creator_fd = -1
      BY DEF BrokerInv, CreatorOK
<1> QED BY <1>1, <1>2, <1>3

(* A record that stays, with what it names, stands for the same objects.   *)
LEMMA SameObjective ==
    ASSUME BrokerInv, generation' = generation,
           \A f \in Fd \cap Named(generation) : fd_table'[f] = fd_table[f]
    PROVE  Objective' = Objective
<1>1. CacheOf' = CacheOf /\ LockOf' = LockOf /\ OwnerOf' = OwnerOf
      BY PresentOK DEF Named, CacheOf, LockOf, OwnerOf
<1> QED BY <1>1 DEF Objective

(* Replies without descriptors grant nothing.                              *)
LEMMA PlainGrant ==
    ASSUME NEW type,
           ahe_broker_send_message(ahe_broker_message_init(type))
    PROVE  granted' = granted
BY DEF ahe_broker_send_message, ahe_broker_message_init

(* A step that ends with the present record and grants nothing.            *)
LEMMA KeptOrDiscarded ==
    ASSUME BrokerInv, pc # "exited", pc' # "exited",
           granted' = granted, memfds' = memfds,
           \/ generation.state = "INITIALIZING"
              /\ generation' = ahe_generation_init
           \/ /\ generation' = generation
              /\ \A f \in Fd \cap Named(generation) :
                    fd_table'[f] = fd_table[f]
    PROVE  Same \/ Discarded
BY SameObjective DEF Same, Discarded

(* What the present record names is open, and is not the listener.         *)
LEMMA NamedOpen ==
    ASSUME BrokerInv, NEW f \in Fd \cap Named(generation)
    PROVE  fd_table[f].kind \in {"memfd", "socket"}
<1>1. \A g \in Fd : g # -1
      BY DEF Fd
<1>2. CASE f = generation.creator_fd
  <2>1. generation.state = "INITIALIZING"
        BY <1>1, <1>2, PresentOK
  <2>2. PICK i \in 1 .. Len(clients) : clients[i].fd = generation.creator_fd
        BY <2>1 DEF BrokerInv, CreatorOK
  <2> QED BY <1>2, <2>2 DEF BrokerInv, Owned, ClientsOK
<1>3. CASE f \in {generation.cache_fd, generation.lock_fd}
      BY <1>1, <1>3, PresentOK DEF GenerationOK, ahe_generation_init
<1> QED BY <1>2, <1>3 DEF Named

(* The loop, the peers and the exit.                                       *)
LEMMA OuterSteps ==
    ASSUME BrokerInv,
           \/ LoopStops \/ LoopContinues \/ LoopClosesListener \/ TrimClient
           \/ TrimDone \/ Setup \/ SetupFails \/ Poll \/ SkipAccept
           \/ ahe_broker_add_client \/ RejectForeign \/ AcceptFails
           \/ Shutdown \/ Kill \/ ahe_broker_handle_signal \/ PeerStep
           \/ UNCHANGED vars
    PROVE  Same \/ Discarded \/ Stopped
<1>1. CASE \/ LoopStops \/ LoopContinues \/ TrimDone \/ Setup \/ SetupFails
           \/ Poll \/ SkipAccept \/ RejectForeign \/ AcceptFails
           \/ ahe_broker_handle_signal
  <2>1. /\ UNCHANGED <<generation, fd_table, granted, memfds>>
        /\ pc # "exited" /\ pc' # "exited"
        BY <1>1 DEF LoopStops, LoopContinues, TrimDone, Setup, SetupFails,
           Poll, SkipAccept, RejectForeign, AcceptFails, NextIteration,
           Accepting, AllServed, ahe_broker_handle_signal, kernelVars
  <2> QED BY <2>1, KeptOrDiscarded
<1>2. CASE PeerStep \/ UNCHANGED vars
  <2>1. UNCHANGED <<generation, fd_table, granted, memfds, pc>>
        BY <1>2 DEF PeerStep, PeerConnect, PeerSend, PeerReceive, PeerClose,
           brokerVars, vars
  <2> QED BY <2>1, SameObjective DEF Same
<1>3. CASE LoopClosesListener
  <2>1. /\ UNCHANGED <<generation, granted, memfds>>
        /\ pc = "loop" /\ pc' = "trim"
        /\ fd_table' = CloseFds(fd_table, {listener_fd})
        BY <1>3 DEF LoopClosesListener
  <2>2. listener_fd \in Fd => fd_table[listener_fd].kind = "listener"
    <3>1. \A g \in Fd : g # -1
          BY DEF Fd
    <3> QED BY <3>1 DEF BrokerInv, Owned, ListenerOK, Listener, Object
  <2>3. \A f \in Fd \cap Named(generation) : fd_table'[f] = fd_table[f]
        BY <2>1, <2>2, NamedOpen DEF CloseFds
  <2> QED BY <2>1, <2>3, KeptOrDiscarded
<1>4. CASE TrimClient
  <2>1. /\ UNCHANGED <<granted, memfds, pc>> /\ pc = "trim"
        /\ client_index > 0
        /\ \/ UNCHANGED <<generation, fd_table>>
           \/ ahe_broker_close_client(client_index, clients, generation,
                                      fd_table)
        BY <1>4 DEF TrimClient
  <2>2. client_index \in 1 .. Len(clients)
        BY <2>1 DEF BrokerInv, RestOK, LoopOK, Owned, ClientsOK
  <2> QED BY <2>1, <2>2, CloseObjects, PresentOK, KeptOrDiscarded
<1>5. CASE ahe_broker_add_client
  <2>1. /\ UNCHANGED <<generation, granted, memfds>>
        /\ pc = "serve" /\ pc' = "loop"
        BY <1>5 DEF ahe_broker_add_client, Accepting, AllServed, NextIteration
  <2>2. PICK f \in Fd :
            /\ IsNextFd(f, fd_table)
            /\ fd_table' = [fd_table EXCEPT ![f] = Socket(Head(backlog))]
        BY <1>5 DEF ahe_broker_add_client
  <2>3. fd_table[f].kind = "closed"
        BY <2>2, ClosedObject DEF IsNextFd, FreeFds
  <2>4. fd_table \in [Fd -> Objects]
        BY DEF BrokerInv, Owned, TableOK
  <2>5. \A h \in Fd \cap Named(generation) : fd_table'[h] = fd_table[h]
        BY <2>2, <2>3, <2>4, NamedOpen
  <2> QED BY <2>1, <2>5, KeptOrDiscarded
<1>6. CASE Shutdown \/ Kill
      BY <1>6 DEF Shutdown, Kill, Disconnect, Stopped
<1> QED BY <1>1, <1>2, <1>3, <1>4, <1>5, <1>6

(* A turn that sends no descriptors and has the record as it was.          *)
LEMMA PlainTurns ==
    ASSUME BrokerInv,
           \/ SkipClient \/ RefuseClient \/ ReceiveFails \/ AcquireFails
           \/ AcquireDeclined \/ HandleDetach \/ HandleOther
    PROVE  Same \/ Discarded
<1>1. CASE SkipClient \/ RefuseClient \/ ReceiveFails
  <2>1. /\ Serving /\ pc = "serve" /\ pc' = "serve"
        /\ UNCHANGED <<granted, memfds>>
        /\ \/ UNCHANGED <<generation, fd_table>>
           \/ ahe_broker_close_client(client_index, clients, generation,
                                      fd_table)
        BY <1>1 DEF SkipClient, RefuseClient, ReceiveFails, Serving,
           NextClient, NoMessage
  <2>2. client_index \in 1 .. Len(clients)
        BY <2>1, ServingClient
  <2> QED BY <2>1, <2>2, CloseObjects, PresentOK, KeptOrDiscarded
<1>2. CASE AcquireFails \/ AcquireDeclined \/ HandleDetach \/ HandleOther
  <2>1. PICK type, keep : Reply(type, keep)
        BY <1>2, AcquireFailsPlainly
           DEF AcquireDeclined, HandleDetach, HandleOther
  <2>2. Serving
        BY <1>2 DEF AcquireFails, AcquireDeclined, HandleDetach, HandleOther,
           ahe_broker_receive_message
  <2>3. /\ granted' = granted /\ memfds' = memfds
        /\ Finish(generation, fd_table, keep)
        BY <2>1, PlainGrant DEF Reply
  <2>4. pc = "serve" /\ pc' = "serve"
        BY <2>2, <2>3 DEF Serving, Finish, NextClient
  <2> QED BY <2>2, <2>3, <2>4, FinishObjects, PresentOK, KeptOrDiscarded
<1> QED BY <1>1, <1>2

-----------------------------------------------------------------------------
(* The turns that hand out descriptors or change the record.               *)

(* What is delivered when the descriptors of a record can be sent.         *)
LEMMA GrantSent ==
    ASSUME NEW gen, NEW table,
           ahe_broker_send_message(Descriptors(gen, table)),
           table[gen.cache_fd].id # 0
    PROVE  granted' =
               IF CanSend
               THEN granted \cup
                    {[conn |-> Conn(client_index),
                      type |-> IF gen.state = "READY" THEN "ATTACH"
                                                      ELSE "CREATE",
                      cache |-> table[gen.cache_fd].id,
                      lock |-> table[gen.lock_fd].id,
                      mapping_base |-> gen.mapping_base,
                      shared_globals_offset |-> gen.shared_globals_offset]}
               ELSE granted
BY DEF ahe_broker_send_message, Descriptors

(* A turn whose answer could be sent does not end the connection.          *)
LEMMA FinishKeeps ==
    ASSUME BrokerInv, EventsTrue, NEW type, ahe_broker_receive_message(type),
           NEW gen, NEW table, Finish(gen, table, CanSend), CanSend
    PROVE  generation' = gen /\ fd_table' = table
<1>1. Serving /\ Events # {}
      BY DEF ahe_broker_receive_message
<1>2. Events = {"IN"}
      BY <1>1, SendableEvents
<1> QED BY <1>2 DEF Finish

(* ACQUIRE of a generation that matches: an attach, or the creator asks    *)
(* again and is given what it has.                                         *)
LEMMA GrantTurn ==
    ASSUME ServiceInv, AcquireGranted
    PROVE  \/ ~CanSend /\ (Same \/ Discarded)
           \/ /\ CanSend /\ ahe_generation_matches(Received)
              /\ \E c \in Conns :
                    /\ c = Conn(client_index)
                    /\ \/ AttachedFor(c)
                       \/ /\ Same /\ generation.state = "INITIALIZING"
                          /\ OwnerOf = c
<1>1. /\ ahe_broker_receive_message("ACQUIRE") /\ ~Declined
      /\ generation.state # "EMPTY"
      /\ ahe_broker_send_message(Descriptors(generation, fd_table))
      /\ Finish(generation, fd_table, CanSend)
      /\ memfds' = memfds
      BY DEF AcquireGranted
<1>2. BrokerInv /\ Serving
      BY <1>1 DEF ServiceInv, ahe_broker_receive_message
<1>3. PICK c \in Conns : c = Conn(client_index)
      BY <1>2, ServingClient
<1>m. ahe_generation_matches(Received)
      BY <1>1 DEF Declined
<1>4. pc = "serve" /\ pc' = "serve"
      BY <1>1, <1>2 DEF Serving, Finish, NextClient
<1>5. /\ generation.cache_fd \in Fd /\ generation.lock_fd \in Fd
      /\ CacheOf = fd_table[generation.cache_fd].id
      /\ LockOf = fd_table[generation.lock_fd].id
      /\ CacheOf # 0
      /\ generation.state \in {"INITIALIZING", "READY"}
  <2>1. /\ GenerationOK(generation, fd_table) /\ TableOK(fd_table)
        BY <1>2 DEF BrokerInv, Owned
  <2>2. /\ generation.cache_fd \in Fd /\ generation.lock_fd \in Fd
        /\ generation.cache_fd # -1 /\ generation.lock_fd # -1
        /\ fd_table[generation.cache_fd].kind = "memfd"
        /\ generation.state \in {"INITIALIZING", "READY"}
        BY <1>1, <2>1 DEF GenerationOK, Generations
  <2> QED BY <2>1, <2>2 DEF TableOK, CacheOf, LockOf
<1>6. granted' = IF CanSend
                 THEN granted \cup
                      {Delivered(c, IF generation.state = "READY"
                                    THEN "ATTACH" ELSE "CREATE")}
                 ELSE granted
      BY <1>1, <1>3, <1>5, GrantSent DEF Delivered
<1>7. CASE ~CanSend
  <2>1. granted' = granted
        BY <1>6, <1>7
  <2> QED BY <1>1, <1>2, <1>4, <1>7, <2>1, FinishObjects, PresentOK,
             KeptOrDiscarded
<1>8. CASE CanSend /\ generation.state = "READY"
  <2>1. granted' = granted \cup {Delivered(c, "ATTACH")}
        BY <1>6, <1>8
  <2>2. /\ generation' = generation
        /\ \A f \in Fd \cap Named(generation) : fd_table'[f] = fd_table[f]
        BY <1>1, <1>2, <1>8, FinishObjects, PresentOK
  <2>3. AttachedFor(c)
        BY <1>1, <1>2, <1>4, <1>8, <2>1, <2>2, SameObjective DEF AttachedFor
  <2> QED BY <1>3, <1>8, <1>m, <2>3
<1>9. CASE CanSend /\ generation.state = "INITIALIZING"
  <2>1. generation' = generation /\ fd_table' = fd_table
        BY <1>1, <1>9, FinishKeeps DEF ServiceInv
  <2>2. generation.creator_fd = ClientFd
        BY <1>1, <1>9 DEF Declined
  <2>3. PICK i \in 1 .. Len(clients) :
            /\ clients[i].fd = generation.creator_fd
            /\ \E g \in granted :
                  /\ g.conn = fd_table[clients[i].fd].id /\ g.type = "CREATE"
                  /\ g.cache = fd_table[generation.cache_fd].id
                  /\ g.lock = fd_table[generation.lock_fd].id
        BY <1>2, <1>9 DEF BrokerInv, CreatorOK
  <2>4. PICK g \in granted :
            /\ g.conn = fd_table[clients[i].fd].id /\ g.type = "CREATE"
            /\ g.cache = fd_table[generation.cache_fd].id
            /\ g.lock = fd_table[generation.lock_fd].id
        BY <2>3
  <2>5. g \in Grant
        BY <1>2 DEF BrokerInv, RestOK
  <2>6. g.mapping_base = 0 /\ g.shared_globals_offset = 0
        BY <2>4 DEF ServiceInv, GrantsOK
  <2>7. /\ generation.mapping_base = 0
        /\ generation.shared_globals_offset = 0
        BY <1>9 DEF ServiceInv, RecordOK
  <2>8. g.conn = c
        BY <1>3, <2>2, <2>3, <2>4 DEF ClientFd, Conn
  <2>9. g = Delivered(c, "CREATE")
        BY <1>5, <2>4, <2>5, <2>6, <2>7, <2>8 DEF Delivered, Grant
  <2>10. granted' = granted
        BY <1>6, <1>9, <2>9
  <2>11. Same
        BY <1>1, <1>2, <1>4, <2>1, <2>10, SameObjective DEF Same
  <2>12. OwnerOf = c
    <3>1. ClientFd \in Fd
          BY <1>2, ServingClient
    <3>2. generation.creator_fd # -1
          BY <2>2, <3>1 DEF Fd
    <3> QED BY <1>3, <2>2, <3>2 DEF OwnerOf, ClientFd, Conn
  <2> QED BY <1>3, <1>9, <1>m, <2>11, <2>12
<1> QED BY <1>5, <1>7, <1>8, <1>9

(* ACQUIRE of an empty generation: the client is given new memory, or the  *)
(* memory is gone with the connection.                                     *)
LEMMA CreateTurn ==
    ASSUME ServiceInv, AcquireCreates
    PROVE  \/ ~CanSend /\ Discarded
           \/ /\ CanSend
              /\ \E c \in Conns : c = Conn(client_index) /\ CreatedFor(c)
              /\ generation'.cache_key = Received.cache_key
<1>1. /\ ahe_broker_receive_message("ACQUIRE") /\ BrokerInv /\ EventsTrue
      /\ generation.state = "EMPTY" /\ memfds' = memfds + 2
      BY DEF AcquireCreates, ServiceInv
<1>2. PICK cache_fd \in Fd, lock_fd \in Fd, table \in [Fd -> Objects] :
          LET gen == ahe_generation_create(cache_fd, lock_fd)
          IN  /\ cache_fd # lock_fd
              /\ fd_table[cache_fd] = Closed
              /\ fd_table[lock_fd] = Closed
              /\ \A f \in Fd : table[f] =
                    IF f = cache_fd THEN Memfd(memfds + 1)
                    ELSE IF f = lock_fd THEN Memfd(memfds + 2)
                    ELSE fd_table[f]
              /\ ahe_broker_send_message(Descriptors(gen, table))
              /\ Finish(gen, table, CanSend)
      BY <1>1, Allocated
<1> DEFINE gen == ahe_generation_create(cache_fd, lock_fd)
<1>3. /\ gen.state = "INITIALIZING"
      /\ gen.cache_fd = cache_fd /\ gen.lock_fd = lock_fd
      /\ gen.creator_fd = ClientFd
      /\ gen.mapping_base = 0 /\ gen.shared_globals_offset = 0
      /\ table[cache_fd].id = memfds + 1 /\ table[lock_fd].id = memfds + 2
      BY <1>1, <1>2, CreatedOK
<1>k. gen.cache_key = Received.cache_key
      BY DEF ahe_generation_create
<1>4. /\ ahe_broker_send_message(Descriptors(gen, table))
      /\ Finish(gen, table, CanSend)
      BY <1>2
<1> HIDE DEF gen
<1>5. Serving
      BY <1>1 DEF ahe_broker_receive_message
<1>6. /\ Conn(client_index) \in Conns /\ ClientFd \in Fd
      /\ fd_table[ClientFd].kind = "socket"
      BY <1>1, <1>5, ServingClient
<1>c. PICK c \in Conns : c = Conn(client_index)
      BY <1>6
<1>7. pc = "serve" /\ pc' = "serve"
      BY <1>4, <1>5 DEF Serving, Finish, NextClient
<1>8. memfds \in Nat
      BY <1>1 DEF BrokerInv, RestOK
<1>9. /\ cache_fd # -1 /\ lock_fd # -1 /\ ClientFd # -1
      BY <1>6 DEF Fd
<1>10. table[ClientFd].id = c
      BY <1>2, <1>6, <1>c, ClosedObject DEF ClientFd, Conn
<1>11. granted' = IF CanSend
                  THEN granted \cup
                       {[conn |-> c, type |-> "CREATE",
                         cache |-> memfds + 1, lock |-> memfds + 2,
                         mapping_base |-> 0, shared_globals_offset |-> 0]}
                  ELSE granted
      BY <1>3, <1>4, <1>8, <1>c, GrantSent
<1>12. CASE CanSend
  <2>1. generation' = gen /\ fd_table' = table
        BY <1>1, <1>4, <1>12, FinishKeeps
  <2>2. CacheOf' = memfds + 1 /\ LockOf' = memfds + 2 /\ OwnerOf' = c
        BY <1>3, <1>9, <1>10, <2>1 DEF CacheOf, LockOf, OwnerOf
  <2>3. Delivered(c, "CREATE")' =
            [conn |-> c, type |-> "CREATE",
             cache |-> memfds + 1, lock |-> memfds + 2,
             mapping_base |-> 0, shared_globals_offset |-> 0]
        BY <1>3, <2>1, <2>2 DEF Delivered
  <2>4. granted' = granted \cup {[conn |-> c, type |-> "CREATE",
             cache |-> memfds + 1, lock |-> memfds + 2,
             mapping_base |-> 0, shared_globals_offset |-> 0]}
        BY <1>11, <1>12
  <2>5. CreatedFor(c)
        BY <1>1, <1>3, <1>6, <1>7, <2>1, <2>2, <2>3, <2>4
           DEF CreatedFor, Objective
  <2> QED BY <1>12, <1>c, <1>k, <2>1, <2>5
<1>13. CASE ~CanSend
  <2>1. generation' = ahe_generation_init
        BY <1>3, <1>4, <1>13
           DEF Finish, ahe_broker_close_client, IsCreator, ClientFd
  <2>2. granted' = granted
        BY <1>11, <1>13
  <2> QED BY <1>1, <1>7, <1>13, <2>1, <2>2 DEF Discarded
<1> QED BY <1>12, <1>13

(* READY: published, refused, or discarded with the connection.            *)
LEMMA ReadyTurn ==
    ASSUME ServiceInv, ahe_broker_handle_ready
    PROVE  \/ ~(CanSend /\ ReadyAccepted) /\ (Same \/ Discarded)
           \/ /\ CanSend /\ ReadyAccepted
              /\ PublishedNow /\ generation' = Published
<1>1. /\ ahe_broker_receive_message("READY") /\ BrokerInv
      BY DEF ahe_broker_handle_ready, ServiceInv
<1>2. Serving /\ Received \in Request
      BY <1>1, ReceivedRequest
<1>3. /\ granted' = granted /\ memfds' = memfds
      /\ \/ /\ ~(CanSend /\ ReadyAccepted)
            /\ Finish(generation, fd_table, CanSend)
         \/ /\ CanSend /\ ReadyAccepted
            /\ Finish(Published, fd_table, CanSend)
      BY PlainGrant DEF ahe_broker_handle_ready, Reply
<1>4. pc = "serve" /\ pc' = "serve"
      BY <1>2, <1>3 DEF Serving, Finish, NextClient
<1>5. CASE /\ ~(CanSend /\ ReadyAccepted)
           /\ Finish(generation, fd_table, CanSend)
      BY <1>1, <1>2, <1>3, <1>4, <1>5, FinishObjects, PresentOK,
         KeptOrDiscarded
<1>6. CASE CanSend /\ ReadyAccepted /\ Finish(Published, fd_table, CanSend)
  <2>1. /\ GenerationOK(generation, fd_table)
        /\ generation \in Generations /\ generation.state = "INITIALIZING"
        BY <1>1, <1>6
           DEF BrokerInv, Owned, GenerationOK, ReadyAccepted, IsCreator
  <2>2. /\ Published \in Generations /\ Published.state = "READY"
        /\ Published.cache_fd = generation.cache_fd
        /\ Published.lock_fd = generation.lock_fd
        /\ Published.creator_fd = -1
        /\ Published.mapping_base \in Nat \ {0}
        /\ Published.shared_globals_offset \in Nat
    <3>1. /\ Received.mapping_base \in Nat \ {0}
          /\ Received.shared_globals_offset \in Nat
          BY <1>2, <1>6 DEF ReadyAccepted, Request
    <3> QED BY <2>1, <3>1 DEF Published, Generations
  <2> HIDE DEF Published
  <2>3. GenerationOK(Published, fd_table)
        BY <2>1, <2>2 DEF GenerationOK
  <2>4. /\ generation' = Published
        /\ \A f \in Fd \cap Named(Published) : fd_table'[f] = fd_table[f]
        BY <1>1, <1>2, <1>6, <2>2, <2>3, FinishObjects
  <2>5. CacheOf' = CacheOf /\ LockOf' = LockOf /\ OwnerOf' = Nobody
    <3>1. generation.cache_fd \in Fd /\ generation.lock_fd \in Fd
          BY <2>1 DEF GenerationOK, Generations
    <3> QED BY <2>2, <2>4, <3>1 DEF CacheOf, LockOf, OwnerOf, Named
  <2>6. PublishedNow
        BY <1>3, <1>4, <2>1, <2>2, <2>4, <2>5 DEF PublishedNow, Objective
  <2> QED BY <1>6, <2>4, <2>6
<1> QED BY <1>3, <1>5, <1>6

(* ABORT: only the creator's discards the generation.                      *)
LEMMA AbortTurn ==
    ASSUME ServiceInv, HandleAbort
    PROVE  Same \/ Discarded
<1>1. /\ ahe_broker_receive_message("ABORT") /\ BrokerInv
      /\ memfds' = memfds
      BY DEF HandleAbort, ServiceInv
<1>2. granted' = granted
      BY PlainGrant DEF HandleAbort
<1>3. Serving
      BY <1>1 DEF ahe_broker_receive_message
<1>4. pc = "serve" /\ pc' = "serve"
      BY <1>3 DEF Serving, HandleAbort, Finish, NextClient
<1>5. CASE Finish(generation, fd_table, CanSend)
      BY <1>1, <1>2, <1>3, <1>4, <1>5, FinishObjects, PresentOK,
         KeptOrDiscarded
<1>6. CASE /\ IsCreator(generation, ClientFd)
           /\ Finish(ahe_generation_init,
                     ahe_generation_reset(generation, fd_table), CanSend)
  <2>1. generation' = ahe_generation_init
        BY <1>6 DEF Finish, ahe_broker_close_client
  <2> QED BY <1>1, <1>2, <1>4, <1>6, <2>1
          DEF Discarded, IsCreator
<1> QED BY <1>5, <1>6 DEF HandleAbort

(* Every step of the broker, its peers or the kernel is one of the         *)
(* service's.                                                              *)
LEMMA ServiceNext ==
    ASSUME ServiceInv, [Next]_vars
    PROVE  ServiceStep
<1>0. BrokerInv
      BY DEF ServiceInv
<1>1. CASE \/ LoopStops \/ LoopContinues \/ LoopClosesListener \/ TrimClient
           \/ TrimDone \/ Setup \/ SetupFails \/ Poll \/ SkipAccept
           \/ ahe_broker_add_client \/ RejectForeign \/ AcceptFails
           \/ Shutdown \/ Kill \/ ahe_broker_handle_signal \/ PeerStep
           \/ UNCHANGED vars
      BY <1>0, <1>1, OuterSteps DEF ServiceStep
<1>2. CASE \/ SkipClient \/ RefuseClient \/ ReceiveFails \/ AcquireFails
           \/ AcquireDeclined \/ HandleDetach \/ HandleOther
      BY <1>0, <1>2, PlainTurns DEF ServiceStep
<1>3. CASE \/ AcquireGranted \/ AcquireCreates \/ HandleAbort
           \/ ahe_broker_handle_ready
      BY <1>3, GrantTurn, CreateTurn, ReadyTurn, AbortTurn DEF ServiceStep
<1> QED BY <1>1, <1>2, <1>3
        DEF Next, BrokerStep, ahe_broker_handle_client_message,
            ahe_broker_handle_acquire

-----------------------------------------------------------------------------
(* The invariant behind the service's promises.                            *)

(* The record is in order before the first step and after each.            *)
LEMMA RecordNext ==
    ASSUME RecordOK, ServiceStep
    PROVE  RecordOK'
<1>1. CASE Same
      BY <1>1 DEF Same, RecordOK
<1>2. CASE Discarded \/ Stopped
      BY <1>2 DEF Discarded, Stopped, ahe_generation_init, RecordOK
<1>3. CASE PublishedNow
      BY <1>3 DEF PublishedNow, RecordOK
<1>4. ASSUME NEW c \in Conns, CreatedFor(c) \/ AttachedFor(c)
      PROVE  RecordOK'
      BY <1>4 DEF CreatedFor, AttachedFor, RecordOK
<1> QED BY <1>1, <1>2, <1>3, <1>4 DEF ServiceStep

(* A step that creates: its memory is new to every grant there was.        *)
LEMMA CreatedGrants ==
    ASSUME ServiceInv, NEW c \in Conns, CreatedFor(c)
    PROVE  GrantsOK' /\ GrantsAgree'
<1> DEFINE new == [conn |-> c, type |-> "CREATE", cache |-> memfds + 1,
                   lock |-> memfds + 2, mapping_base |-> 0,
                   shared_globals_offset |-> 0]
<1>1. /\ CacheOf' = memfds + 1 /\ LockOf' = memfds + 2 /\ OwnerOf' = c
      /\ generation'.state = "INITIALIZING"
      /\ memfds' = memfds + 2
      BY DEF CreatedFor, Objective
<1>2. granted' = granted \cup {new}
      BY <1>1 DEF CreatedFor, Delivered
<1>3. /\ new.conn = c /\ new.type = "CREATE" /\ new.cache = memfds + 1
      /\ new.lock = memfds + 2 /\ new.mapping_base = 0
      /\ new.shared_globals_offset = 0
      OBVIOUS
<1> HIDE DEF new
<1>4. memfds \in Nat
      BY DEF ServiceInv, BrokerInv, RestOK
<1>5. \A g \in granted :
          /\ g.cache \in 1 .. memfds
          /\ g.type = "CREATE" =>
                g.mapping_base = 0 /\ g.shared_globals_offset = 0
          /\ g.type = "ATTACH" => g.mapping_base # 0
      BY DEF ServiceInv, GrantsOK
<1>6. \A g \in granted : g.cache # memfds + 1 /\ g.cache \in 1 .. memfds + 2
      BY <1>4, <1>5
<1>7. GrantsOK'
  <2>1. \A g \in granted' :
          /\ g.cache \in 1 .. memfds'
          /\ g.type = "CREATE" =>
                g.mapping_base = 0 /\ g.shared_globals_offset = 0
          /\ g.type = "ATTACH" => g.mapping_base # 0
        BY <1>1, <1>2, <1>3, <1>4, <1>5, <1>6
  <2>2. CacheOf' \in 1 .. memfds' /\ new \in granted'
        BY <1>1, <1>2, <1>4
  <2>3. \A g \in granted' : g.cache = CacheOf' => g = new
        BY <1>1, <1>2, <1>6
  <2> QED BY <1>1, <1>3, <2>1, <2>2, <2>3 DEF GrantsOK
<1>8. GrantsAgree'
  <2>1. ASSUME NEW g \in granted', NEW h \in granted', g.cache = h.cache
        PROVE  \/ g = new /\ h = new
               \/ g \in granted /\ h \in granted
    <3>1. g \in granted => g.cache # memfds + 1
          BY <1>6
    <3>2. h \in granted => h.cache # memfds + 1
          BY <1>6
    <3> QED BY <1>2, <1>3, <2>1, <3>1, <3>2
  <2>2. granted \subseteq granted'
        BY <1>2
  <2> QED BY <1>3, <2>1, <2>2 DEF ServiceInv, GrantsAgree
<1> QED BY <1>7, <1>8

(* A step that attaches: it is told what those before it were told.        *)
LEMMA AttachedGrants ==
    ASSUME ServiceInv, NEW c \in Conns, AttachedFor(c)
    PROVE  GrantsOK' /\ GrantsAgree'
<1> DEFINE new == Delivered(c, "ATTACH")
<1>1. /\ CacheOf' = CacheOf /\ LockOf' = LockOf /\ OwnerOf' = OwnerOf
      /\ generation' = generation /\ generation.state = "READY"
      /\ memfds' = memfds
      /\ granted' = granted \cup {new}
      BY DEF AttachedFor, Objective
<1>2. /\ new.conn = c /\ new.type = "ATTACH" /\ new.cache = CacheOf
      /\ new.lock = LockOf /\ new.mapping_base = generation.mapping_base
      /\ new.shared_globals_offset = generation.shared_globals_offset
      BY DEF Delivered
<1> HIDE DEF new
<1>3. generation.mapping_base # 0
      BY <1>1 DEF ServiceInv, RecordOK
<1>4. GrantsOK /\ GrantsAgree
      BY DEF ServiceInv
<1>5. PICK k \in granted : k.cache = CacheOf /\ k.type = "CREATE"
      BY <1>1, <1>4 DEF GrantsOK
<1>6. GrantsOK'
      BY <1>1, <1>2, <1>3, <1>4 DEF GrantsOK
<1>7. ASSUME NEW h \in granted, h.cache = CacheOf
      PROVE  /\ h.lock = LockOf
             /\ h.type = "ATTACH" =>
                   /\ h.mapping_base = generation.mapping_base
                   /\ h.shared_globals_offset =
                          generation.shared_globals_offset
      BY <1>1, <1>4, <1>7 DEF GrantsOK
<1>8. ASSUME NEW g \in granted', NEW h \in granted', g.cache = h.cache
      PROVE  /\ g.lock = h.lock
             /\ g.type = "CREATE" /\ h.type = "CREATE" => g.conn = h.conn
             /\ g.type = "ATTACH" /\ h.type = "ATTACH" =>
                   /\ g.mapping_base = h.mapping_base
                   /\ g.shared_globals_offset = h.shared_globals_offset
             /\ g.type = "ATTACH" =>
                   /\ g.mapping_base # 0
                   /\ \E l \in granted' : l.cache = g.cache
                                          /\ l.type = "CREATE"
  <2>1. CASE g \in granted /\ h \in granted
        BY <1>1, <1>4, <1>8, <2>1 DEF GrantsAgree
  <2>2. CASE g = new /\ h = new
        BY <1>1, <1>2, <1>3, <1>5, <2>2
  <2>3. CASE g = new /\ h \in granted
        BY <1>1, <1>2, <1>3, <1>5, <1>7, <1>8, <2>3
  <2>4. CASE g \in granted /\ h = new
    <3>1. g.cache = CacheOf
          BY <1>2, <1>8, <2>4
    <3>2. g.type = "ATTACH" => g.mapping_base # 0
          BY <1>4, <2>4 DEF GrantsOK
    <3> QED BY <1>1, <1>2, <1>5, <1>7, <2>4, <3>1, <3>2
  <2> QED BY <1>1, <2>1, <2>2, <2>3, <2>4
<1> QED BY <1>6, <1>8 DEF GrantsAgree

(* The grants agree before the first step and after each.                  *)
LEMMA GrantsNext ==
    ASSUME ServiceInv, ServiceStep
    PROVE  GrantsOK' /\ GrantsAgree'
<1>0. GrantsOK /\ GrantsAgree
      BY DEF ServiceInv
<1>1. CASE Same
      BY <1>0, <1>1 DEF Same, Objective, GrantsOK, GrantsAgree
<1>2. CASE Discarded \/ Stopped
  <2>1. /\ granted' = granted /\ generation'.state = "EMPTY"
        /\ memfds' \in {memfds, memfds + 2}
        BY <1>2 DEF Discarded, Stopped, ahe_generation_init
  <2>2. memfds \in Nat
        BY DEF ServiceInv, BrokerInv, RestOK
  <2>3. \A g \in granted : g.cache \in 1 .. memfds'
        BY <1>0, <2>1, <2>2 DEF GrantsOK
  <2> QED BY <1>0, <2>1, <2>3 DEF GrantsOK, GrantsAgree
<1>3. CASE PublishedNow
  <2>1. /\ CacheOf' = CacheOf /\ LockOf' = LockOf
        /\ generation.state = "INITIALIZING" /\ generation'.state = "READY"
        /\ granted' = granted /\ memfds' = memfds
        BY <1>3 DEF PublishedNow, Objective
  <2> QED BY <1>0, <2>1 DEF GrantsOK, GrantsAgree
<1>4. ASSUME NEW c \in Conns, CreatedFor(c) \/ AttachedFor(c)
      PROVE  GrantsOK' /\ GrantsAgree'
      BY <1>4, CreatedGrants, AttachedGrants
<1> QED BY <1>1, <1>2, <1>3, <1>4 DEF ServiceStep

(* The invariant of the service is inductive.                              *)
LEMMA ServiceInvNext ==
    ASSUME ServiceInv, [Next]_vars
    PROVE  ServiceInv'
<1>1. BrokerInv /\ EventsTrue /\ RecordOK
      BY DEF ServiceInv
<1>2. BrokerInv'
      BY <1>1, BrokerNext
<1>3. EventsTrue'
      BY <1>1, EventsNext
<1>4. ServiceStep
      BY ServiceNext
<1>5. RecordOK'
      BY <1>1, <1>4, RecordNext
<1>6. GrantsOK' /\ GrantsAgree'
      BY <1>4, GrantsNext
<1> QED BY <1>2, <1>3, <1>5, <1>6 DEF ServiceInv

(* It holds before the first step.                                         *)
LEMMA ServiceInit == Init => ServiceInv
BY BrokerInit DEF Init, ServiceInv, EventsTrue, RecordOK, GrantsOK,
   GrantsAgree, ahe_generation_init

(* The inductive invariant of the service holds in every reachable state.  *)
THEOREM ServiceInvariant == Spec => []ServiceInv
<1>1. Init => ServiceInv
      BY ServiceInit
<1>2. ServiceInv /\ [Next]_vars => ServiceInv'
      BY ServiceInvNext
<1> QED BY <1>1, <1>2, PTL DEF Spec

(* All who were handed descriptors of one cache memory hold one lock and   *)
(* were told one address; one connection at most was told to initialise    *)
(* it, whatever order requests, closes and failures come in.               *)
THEOREM GrantsConsistent == Spec => []GrantsAgree
<1>1. ServiceInv => GrantsAgree
      BY DEF ServiceInv
<1> QED BY <1>1, ServiceInvariant, PTL

-----------------------------------------------------------------------------
(* The refinement: each step of ServiceStep is one of the abstract service *)
(* or leaves its variables alone.                                          *)

PhaseNow == IF pc = "exited" THEN "stopped" ELSE PhaseOf(generation.state)
HolderOf(g) == [client |-> g.conn, memory |-> g.cache, place |-> PlaceOf(g)]
HoldersOf(grants) == {HolderOf(g) : g \in grants}
Unplaced == [base |-> 0, offset |-> 0]

(* The abstract variables as the proof refers to them.                     *)
AbstractState ==
    <<PhaseNow, OwnerOf, CacheOf, PlaceOf(generation), HoldersOf(granted)>>

(* An empty record stands for no generation.                               *)
LEMMA NoGeneration ==
    /\ PhaseOf(ahe_generation_init.state) = "none"
    /\ PlaceOf(ahe_generation_init) = Unplaced
    /\ ahe_generation_init.creator_fd = -1
    /\ ahe_generation_init.cache_fd = -1
    /\ ahe_generation_init.state = "EMPTY"
BY DEF ahe_generation_init, PhaseOf, PlaceOf, Unplaced

(* A record with state EMPTY names nothing, so that its abstract state is  *)
(* known.                                                                  *)
LEMMA EmptyState ==
    ASSUME generation = ahe_generation_init
    PROVE  /\ OwnerOf = Nobody /\ CacheOf = 0
           /\ PlaceOf(generation) = Unplaced
BY NoGeneration DEF OwnerOf, CacheOf

(* A new grant is a new holder.                                            *)
LEMMA HoldersAdd ==
    ASSUME NEW grants, NEW g
    PROVE  HoldersOf(grants \cup {g}) = HoldersOf(grants) \cup {HolderOf(g)}
BY DEF HoldersOf

(* The abstract step that a step of the broker takes.                      *)
AbstractStep ==
    \/ UNCHANGED AbstractState
    \/ \E c \in Conns : Abstract!Create(c) \/ Abstract!Attach(c)
    \/ Abstract!Publish \/ Abstract!Discard \/ Abstract!Stop

(* Discarding an empty generation changes nothing; the step that ends the  *)
(* broker stops the service.                                               *)
LEMMA EndSteps ==
    ASSUME ServiceInv, Discarded \/ Stopped
    PROVE  AbstractStep
<1>1. generation' = ahe_generation_init /\ granted' = granted
      BY DEF Discarded, Stopped
<1>2. /\ OwnerOf' = Nobody /\ CacheOf' = 0
      /\ PlaceOf(generation)' = Unplaced
      /\ HoldersOf(granted)' = HoldersOf(granted)
      BY <1>1, NoGeneration DEF OwnerOf, CacheOf, HoldersOf
<1>3. CASE Stopped
  <2>1. PhaseNow' = "stopped" /\ pc # "exited"
        BY <1>3 DEF Stopped, PhaseNow
  <2>2. generation.state \in {"EMPTY", "INITIALIZING", "READY"}
        BY DEF ServiceInv, BrokerInv, Owned, GenerationOK, Generations
  <2>3. PhaseNow # "stopped"
        BY <2>1, <2>2 DEF PhaseNow, PhaseOf
  <2> QED BY <1>2, <2>1, <2>3 DEF AbstractStep, Abstract!Stop, PhaseNow,
             OwnerOf, CacheOf, Unplaced, HoldersOf, HolderOf
<1>4. CASE Discarded /\ generation.state = "INITIALIZING"
  <2>1. PhaseNow' = "none" /\ PhaseNow = "building"
        BY <1>1, <1>4, NoGeneration DEF Discarded, PhaseNow, PhaseOf
  <2> QED BY <1>2, <2>1 DEF AbstractStep, Abstract!Discard, PhaseNow,
             OwnerOf, CacheOf, Unplaced, HoldersOf, HolderOf
<1>5. CASE Discarded /\ generation.state # "INITIALIZING"
  <2>1. generation = ahe_generation_init
        BY <1>5 DEF Discarded, ServiceInv, BrokerInv, Owned, GenerationOK,
           Generations
  <2>2. PhaseNow' = PhaseNow
        BY <1>1, <1>5, <2>1 DEF Discarded, PhaseNow
  <2> QED BY <1>2, <2>1, <2>2, EmptyState DEF AbstractStep, AbstractState
<1> QED BY <1>3, <1>4, <1>5

(* A creation hands out memory that no holder has.                         *)
LEMMA CreateRefines ==
    ASSUME ServiceInv, NEW c \in Conns, CreatedFor(c)
    PROVE  Abstract!Create(c)
<1>1. /\ CacheOf' = memfds + 1 /\ OwnerOf' = c
      BY DEF CreatedFor, Objective
<1>2. PhaseNow = "none" /\ PhaseNow' = "building"
      BY DEF CreatedFor, PhaseNow, PhaseOf
<1>3. PlaceOf(generation)' = Unplaced
      BY DEF CreatedFor, PlaceOf, Unplaced
<1>4. HoldersOf(granted)' = HoldersOf(granted) \cup
          {[client |-> c, memory |-> CacheOf', place |-> Unplaced]}
  <2>1. HolderOf(Delivered(c, "CREATE")') =
            [client |-> c, memory |-> CacheOf', place |-> Unplaced]
        BY DEF CreatedFor, Delivered, HolderOf, PlaceOf, Unplaced
  <2>2. granted' = granted \cup {Delivered(c, "CREATE")'}
        BY DEF CreatedFor
  <2>3. HoldersOf(granted') =
            HoldersOf(granted) \cup {HolderOf(Delivered(c, "CREATE")')}
        BY <2>2, HoldersAdd
  <2> QED BY <2>1, <2>3
<1>5. memfds + 1 \in (Nat \ {0}) \ {h.memory : h \in HoldersOf(granted)}
  <2>1. memfds \in Nat /\ \A g \in granted : g.cache \in 1 .. memfds
        BY DEF ServiceInv, BrokerInv, RestOK, GrantsOK
  <2>2. \A g \in granted : g.cache # memfds + 1
        BY <2>1
  <2>3. \A h \in HoldersOf(granted) : h.memory # memfds + 1
        BY <2>2 DEF HoldersOf, HolderOf
  <2> QED BY <2>1, <2>3
<1> QED BY <1>1, <1>2, <1>3, <1>4, <1>5
        DEF Abstract!Create, Abstract!Hold, PhaseNow, OwnerOf, CacheOf,
            Unplaced, HoldersOf, HolderOf

(* Publishing and attaching.                                               *)
LEMMA AttachRefines ==
    ASSUME NEW c \in Conns, AttachedFor(c)
    PROVE  Abstract!Attach(c)
<1>1. /\ CacheOf' = CacheOf /\ OwnerOf' = OwnerOf
      /\ generation' = generation
      BY DEF AttachedFor, Objective
<1>2. PhaseNow = "published" /\ PhaseNow' = "published"
      BY DEF AttachedFor, PhaseNow, PhaseOf
<1>3. HolderOf(Delivered(c, "ATTACH")) =
          [client |-> c, memory |-> CacheOf, place |-> PlaceOf(generation)]
      BY DEF Delivered, HolderOf, PlaceOf
<1>4. HoldersOf(granted') =
          HoldersOf(granted) \cup {HolderOf(Delivered(c, "ATTACH"))}
      BY HoldersAdd DEF AttachedFor
<1> QED BY <1>1, <1>2, <1>3, <1>4
        DEF Abstract!Attach, Abstract!Hold, PhaseNow, OwnerOf, CacheOf,
            HoldersOf, HolderOf

(* Publishing sets the place and ends the ownership.                       *)
LEMMA PublishRefines ==
    ASSUME PublishedNow
    PROVE  Abstract!Publish
<1>1. CacheOf' = CacheOf /\ OwnerOf' = Nobody /\ granted' = granted
      BY DEF PublishedNow, Objective
<1>2. PhaseNow = "building" /\ PhaseNow' = "published"
      BY DEF PublishedNow, PhaseNow, PhaseOf
<1>3. PlaceOf(generation)' \in [base : Nat \ {0}, offset : Nat]
      BY DEF PublishedNow, PlaceOf
<1> QED BY <1>1, <1>2, <1>3
        DEF Abstract!Publish, PhaseNow, OwnerOf, CacheOf

(* Every step of the broker maps to a step of the abstract service.        *)
LEMMA StepRefines ==
    ASSUME ServiceInv, [Next]_vars
    PROVE  AbstractStep
<1>1. ServiceStep
      BY ServiceNext
<1>2. CASE Same
  <2>1. /\ generation' = generation /\ granted' = granted
        /\ CacheOf' = CacheOf /\ OwnerOf' = OwnerOf
        /\ PhaseNow' = PhaseNow
        BY <1>2 DEF Same, Objective, PhaseNow
  <2> QED BY <2>1 DEF AbstractStep, AbstractState
<1>3. CASE Discarded \/ Stopped
      BY <1>3, EndSteps
<1>4. CASE PublishedNow
      BY <1>4, PublishRefines DEF AbstractStep
<1>5. ASSUME NEW c \in Conns, CreatedFor(c) \/ AttachedFor(c)
      PROVE  AbstractStep
      BY <1>5, CreateRefines, AttachRefines DEF AbstractStep
<1> QED BY <1>1, <1>2, <1>3, <1>4, <1>5 DEF ServiceStep

(* The broker implements the abstract service: one memory at a time, made  *)
(* by one client, attached to only once published, kept until the end.     *)
THEOREM BrokerRefines == Spec => RefinesGeneration
<1>1. Init => Abstract!Init
  <2> SUFFICES ASSUME Init PROVE Abstract!Init
      OBVIOUS
  <2>1. generation = ahe_generation_init /\ pc = "loop" /\ granted = {}
        BY DEF Init
  <2> QED BY <2>1, NoGeneration, EmptyState
          DEF Abstract!Init, OwnerOf, CacheOf, Unplaced
<1>2. ServiceInv /\ [Next]_vars => [Abstract!Next]_(Abstract!vars)
  <2> SUFFICES ASSUME ServiceInv, [Next]_vars
               PROVE  [Abstract!Next]_(Abstract!vars)
      OBVIOUS
  <2>1. AbstractStep
        BY StepRefines
  <2>2. CASE UNCHANGED AbstractState
        BY <2>2 DEF AbstractState, Abstract!vars, PhaseNow, OwnerOf, CacheOf,
           HoldersOf, HolderOf
  <2>3. CASE \/ \E c \in Conns : Abstract!Create(c) \/ Abstract!Attach(c)
             \/ Abstract!Publish \/ Abstract!Discard \/ Abstract!Stop
        BY <2>3 DEF Abstract!Next
  <2> QED BY <2>1, <2>2, <2>3 DEF AbstractStep
<1> QED BY <1>1, <1>2, ServiceInvariant, PTL
        DEF Spec, RefinesGeneration, Abstract!Spec

(* What the abstract service promises its holders, of the broker: the      *)
(* place of every grant tells the creator from those who attach.           *)
THEOREM HoldersServed == Spec => []HoldersAgree
<1>1. ServiceInv => HoldersAgree
  <2> SUFFICES ASSUME ServiceInv PROVE HoldersAgree
      OBVIOUS
  <2>1. GrantsOK /\ GrantsAgree /\ granted \subseteq Grant
        BY DEF ServiceInv, BrokerInv, RestOK
  <2>2. ASSUME NEW g \in granted
        PROVE  HolderOf(g).place = Unplaced <=> g.type = "CREATE"
    <3>1. g.type \in {"CREATE", "ATTACH"}
          BY <2>1 DEF Grant
    <3>2. HolderOf(g).place =
              [base |-> g.mapping_base, offset |-> g.shared_globals_offset]
          BY DEF HolderOf, PlaceOf
    <3>3. g.type = "CREATE" => HolderOf(g).place = Unplaced
          BY <2>1, <3>2 DEF GrantsOK, Unplaced
    <3>4. g.type = "ATTACH" => HolderOf(g).place # Unplaced
          BY <2>1, <3>2 DEF GrantsOK, Unplaced
    <3> QED BY <3>1, <3>3, <3>4
  <2>3. ASSUME NEW g \in granted, NEW k \in granted,
               HolderOf(g).memory = HolderOf(k).memory
        PROVE  /\ HolderOf(g).place = Unplaced /\ HolderOf(k).place = Unplaced
                      => HolderOf(g).client = HolderOf(k).client
               /\ HolderOf(g).place # Unplaced /\ HolderOf(k).place # Unplaced
                      => HolderOf(g).place = HolderOf(k).place
    <3>1. g.cache = k.cache
          BY <2>3 DEF HolderOf
    <3>2. g.type \in {"CREATE", "ATTACH"} /\ k.type \in {"CREATE", "ATTACH"}
          BY <2>1 DEF Grant
    <3>3. CASE g.type = "CREATE" /\ k.type = "CREATE"
          BY <2>1, <2>2, <3>1, <3>3 DEF GrantsAgree, HolderOf
    <3>4. CASE g.type = "ATTACH" /\ k.type = "ATTACH"
          BY <2>1, <2>2, <3>1, <3>4 DEF GrantsAgree, HolderOf, PlaceOf
    <3> QED BY <2>2, <3>2, <3>3, <3>4
  <2> QED BY <2>3 DEF HoldersAgree, Abstract!HoldersAgree, Abstract!Creates,
             HolderOf, Unplaced
<1> QED BY <1>1, ServiceInvariant, PTL

-----------------------------------------------------------------------------
(* The quota.  The counter is the number of connections whose first        *)
(* message was handled; nothing but that set grows, and only such          *)
(* connections are ever answered.                                          *)

Known(status) == status \in {"served", "dropped"}

(* H is the set of connections of which a message was handled.             *)
HandledAre(H) ==
    /\ IsFiniteSet(H) /\ Cardinality(H) = handled_clients
    /\ \A c \in Conns : replies[c] # <<>> => c \in H
    /\ \A g \in granted : g.conn \in H
    /\ \A c \in H : Known(link[c])
    /\ \A i \in 1 .. Len(clients) : clients[i].handled_message <=> Conn(i) \in H

QuotaInv ==
    /\ \E H \in SUBSET Conns : HandledAre(H)
    /\ MaxClients # 0 => handled_clients <= MaxClients

(* Entry j of the new array is entry i of the old one.                     *)
SameEntry(j, i) ==
    /\ clients'[j].handled_message = clients[i].handled_message
    /\ Conn(j)' = Conn(i)

(* A connection that was accepted stays known to the broker.               *)
LinksKept == \A c \in Conns : Known(link[c]) => Known(link'[c])

(* A step in which no message is handled.                                  *)
Unanswered ==
    /\ handled_clients' = handled_clients /\ granted' = granted
    /\ \A c \in Conns : replies'[c] # <<>> => replies[c] # <<>>
    /\ LinksKept
    /\ \A j \in 1 .. Len(clients') :
          \/ \E i \in 1 .. Len(clients) : SameEntry(j, i)
          \/ /\ ~clients'[j].handled_message
             /\ ~Known(link[Conn(j)'])

(* A step in which a message of the client at client_index is handled.     *)
AnsweredTo(c) ==
    /\ c = Conn(client_index)
    /\ client_index \in 1 .. Len(clients)
    /\ ~OverQuota
    /\ handled_clients' = IF clients[client_index].handled_message
                          THEN handled_clients ELSE handled_clients + 1
    /\ \A d \in Conns : replies'[d] # <<>> => replies[d] # <<>> \/ d = c
    /\ \A g \in granted' : g \in granted \/ g.conn = c
    /\ LinksKept
    /\ \A j \in 1 .. Len(clients') :
          \/ \E i \in 1 .. Len(clients) : i # client_index /\ SameEntry(j, i)
          \/ clients'[j].handled_message /\ Conn(j)' = c

(* Without a message the set stays what it was.                            *)
LEMMA UnansweredQuota ==
    ASSUME QuotaInv, Unanswered
    PROVE  QuotaInv'
<1>1. PICK H \in SUBSET Conns : HandledAre(H)
      BY DEF QuotaInv
<1>2. \A i \in 1 .. Len(clients) :
          clients[i].handled_message <=> Conn(i) \in H
      BY <1>1 DEF HandledAre
<1>3. \A c \in H : Known(link[c])
      BY <1>1 DEF HandledAre
<1>4. \A j \in 1 .. Len(clients') :
          clients'[j].handled_message <=> Conn(j)' \in H
      BY <1>2, <1>3 DEF Unanswered, SameEntry
<1>5. \A c \in H : Known(link'[c])
      BY <1>3 DEF Unanswered, LinksKept
<1>6. HandledAre(H)'
      BY <1>1, <1>4, <1>5 DEF HandledAre, Unanswered, Known
<1>7. handled_clients' = handled_clients
      BY DEF Unanswered
<1> QED BY <1>6, <1>7 DEF QuotaInv

(* With one, it gains the sender if that was not in it; then the quota was *)
(* not yet met.                                                            *)
LEMMA AnsweredQuota ==
    ASSUME BrokerInv, QuotaInv, NEW c \in Conns, AnsweredTo(c)
    PROVE  QuotaInv'
<1>1. PICK H \in SUBSET Conns : HandledAre(H)
      BY DEF QuotaInv
<1> DEFINE G == H \cup {c}
<1>2. /\ client_index \in 1 .. Len(clients) /\ c = Conn(client_index)
      /\ ~OverQuota
      BY DEF AnsweredTo
<1>3. clients[client_index].handled_message <=> c \in H
      BY <1>1, <1>2 DEF HandledAre
<1>4. \A i \in 1 .. Len(clients) : i # client_index => Conn(i) # c
      BY <1>2 DEF BrokerInv, Owned, ClientsOK, Conn
<1>5. IsFiniteSet(H) /\ Cardinality(H) = handled_clients
      BY <1>1 DEF HandledAre
<1>6. IsFiniteSet(G) /\ Cardinality(G) = handled_clients'
  <2>1. IsFiniteSet(G) /\ Cardinality(G) = IF c \in H THEN Cardinality(H)
                                           ELSE Cardinality(H) + 1
        BY <1>5, FS_AddElement
  <2> QED BY <1>3, <1>5, <2>1 DEF AnsweredTo
<1>7. \A i \in 1 .. Len(clients) :
          clients[i].handled_message <=> Conn(i) \in H
      BY <1>1 DEF HandledAre
<1>8. \A j \in 1 .. Len(clients') :
          clients'[j].handled_message <=> Conn(j)' \in G
      BY <1>4, <1>7 DEF AnsweredTo, SameEntry
<1>9. \A d \in G : Known(link'[d])
  <2>1. Known(link[c])
        BY <1>2 DEF BrokerInv, Owned, ClientsOK, Conn, Known
  <2>2. \A d \in H : Known(link[d])
        BY <1>1 DEF HandledAre
  <2> QED BY <2>1, <2>2 DEF AnsweredTo, LinksKept
<1>10. /\ \A d \in Conns : replies'[d] # <<>> => d \in G
       /\ \A g \in granted' : g.conn \in G
      BY <1>1 DEF HandledAre, AnsweredTo
<1>11. PICK K \in SUBSET Conns : K = G
      OBVIOUS
<1> HIDE DEF G
<1>12. HandledAre(K)'
      BY <1>6, <1>8, <1>9, <1>10, <1>11 DEF HandledAre, Known
<1>13. MaxClients # 0 => handled_clients' <= MaxClients
  <2>1. /\ MaxClients # 0 => handled_clients <= MaxClients
        /\ handled_clients \in Nat /\ MaxClients \in Nat
        BY BrokerAssumption DEF QuotaInv, BrokerInv, RestOK
  <2> QED BY <1>2, <2>1 DEF AnsweredTo, OverQuota, QuotaMet
<1> QED BY <1>12, <1>13 DEF QuotaInv

(* Every entry that is left was one of the others.                         *)
LEMMA RemovedEntry ==
    ASSUME NEW cls \in Seq(Client), NEW i \in 1 .. Len(cls)
    PROVE  \A j \in 1 .. Len(RemoveClient(cls, i)) :
               \E k \in 1 .. Len(cls) :
                   k # i /\ RemoveClient(cls, i)[j] = cls[k]
<1>1. Len(RemoveClient(cls, i)) = Len(cls) - 1
      BY RemoveClientLemma
<1>2. \A j \in 1 .. Len(cls) - 1 :
          /\ Kept(cls, i, j) \in 1 .. Len(cls) /\ Kept(cls, i, j) # i
          /\ RemoveClient(cls, i)[j] = cls[Kept(cls, i, j)]
      BY RemoveClientLemma
<1> QED BY <1>1, <1>2

(* Closing the client at i keeps the entries of the others.                *)
LEMMA CloseEntries ==
    ASSUME BrokerInv, NEW i \in 1 .. Len(clients), NEW cls \in Seq(Client),
           Len(cls) = Len(clients),
           \A k \in 1 .. Len(clients) :
               /\ cls[k].fd = clients[k].fd
               /\ k # i => cls[k].handled_message = clients[k].handled_message,
           clients' = RemoveClient(cls, i),
           \A f \in Fd : f # clients[i].fd /\ fd_table[f].kind = "socket"
               => fd_table'[f] = fd_table[f]
    PROVE  \A j \in 1 .. Len(clients') :
               \E k \in 1 .. Len(clients) : k # i /\ SameEntry(j, k)
<1> SUFFICES ASSUME NEW j \in 1 .. Len(clients')
             PROVE  \E k \in 1 .. Len(clients) : k # i /\ SameEntry(j, k)
    OBVIOUS
<1>1. i \in 1 .. Len(cls)
      OBVIOUS
<1>2. PICK k \in 1 .. Len(clients) : k # i /\ clients'[j] = cls[k]
      BY <1>1, RemovedEntry
<1>3. clients \in Seq(Client)
      BY DEF BrokerInv, Owned, ClientsOK
<1>4. clients[k].fd \in Fd
      BY <1>2, <1>3, EntryFd
<1>5. clients[k].fd # clients[i].fd /\ fd_table[clients[k].fd].kind = "socket"
      BY <1>2 DEF BrokerInv, Owned, ClientsOK
<1>6. SameEntry(j, k)
      BY <1>2, <1>4, <1>5 DEF SameEntry, Conn
<1> QED BY <1>2, <1>6

(* The end of a connection leaves it known.                                *)
LEMMA DropKnown ==
    ASSUME NEW c \in Conns, link \in Links, Drop(c)
    PROVE  LinksKept
BY DEF Drop, LinksKept, Known, Links

-----------------------------------------------------------------------------
(* Which steps handle a message.                                           *)

(* An array and a table that stay the same keep every entry.               *)
LEMMA SameEntries ==
    ASSUME clients' = clients,
           \A i \in 1 .. Len(clients) :
               fd_table'[clients[i].fd] = fd_table[clients[i].fd]
    PROVE  \A j \in 1 .. Len(clients') :
               \E i \in 1 .. Len(clients) : SameEntry(j, i)
<1> SUFFICES ASSUME NEW j \in 1 .. Len(clients')
             PROVE  SameEntry(j, j) /\ j \in 1 .. Len(clients)
    OBVIOUS
<1> QED BY DEF SameEntry, Conn

(* The loop, its end and the peers: nobody is answered.                    *)
LEMMA OuterUnanswered ==
    ASSUME BrokerInv,
           \/ LoopStops \/ LoopContinues \/ LoopClosesListener \/ TrimDone
           \/ Setup \/ SetupFails \/ Poll \/ SkipClient \/ SkipAccept
           \/ RejectForeign \/ AcceptFails \/ ahe_broker_handle_signal
           \/ PeerStep \/ UNCHANGED vars
    PROVE  Unanswered
<1>1. link \in Links
      BY DEF BrokerInv, Owned, ClientsOK
<1>2. CASE \/ LoopStops \/ LoopContinues \/ TrimDone \/ Setup \/ SetupFails
           \/ Poll \/ SkipClient \/ SkipAccept \/ AcceptFails
           \/ ahe_broker_handle_signal \/ UNCHANGED vars
  <2>1. UNCHANGED <<handled_clients, granted, replies, link, clients, fd_table>>
        BY <1>2 DEF LoopStops, LoopContinues, TrimDone, Setup, SetupFails,
           Poll, SkipClient, SkipAccept, AcceptFails, NextIteration,
           ahe_broker_handle_signal, kernelVars, NextClient, NoMessage, vars
  <2>2. \A j \in 1 .. Len(clients') :
            \E i \in 1 .. Len(clients) : SameEntry(j, i)
        BY <2>1, SameEntries
  <2> QED BY <2>1, <2>2 DEF Unanswered, LinksKept, Known
<1>3. CASE LoopClosesListener
  <2>1. /\ UNCHANGED <<handled_clients, granted, replies, clients>>
        /\ fd_table' = CloseFds(fd_table, {listener_fd})
        /\ link' = [c \in Conns |-> IF link[c] = "backlog" THEN "dropped"
                                                           ELSE link[c]]
        BY <1>3 DEF LoopClosesListener, CloseListener
  <2>2. ASSUME NEW i \in 1 .. Len(clients)
        PROVE  fd_table'[clients[i].fd] = fd_table[clients[i].fd]
    <3>1. clients[i].fd \in Fd
          BY EntryFd DEF BrokerInv, Owned, ClientsOK
    <3>2. fd_table[clients[i].fd].kind = "socket"
          BY DEF BrokerInv, Owned, ClientsOK
    <3>3. /\ listener_fd # -1 => fd_table[listener_fd] = Listener
          /\ clients[i].fd # -1
          BY <3>1 DEF BrokerInv, Owned, ListenerOK, Fd
    <3>4. clients[i].fd # listener_fd
          BY <3>2, <3>3 DEF Listener, Object
    <3> QED BY <2>1, <3>1, <3>4 DEF CloseFds
  <2>3. \A j \in 1 .. Len(clients') :
            \E i \in 1 .. Len(clients) : SameEntry(j, i)
        BY <2>1, <2>2, SameEntries
  <2>4. LinksKept
        BY <2>1 DEF LinksKept, Known
  <2> QED BY <2>1, <2>3, <2>4 DEF Unanswered
<1>4. CASE RejectForeign
  <2>1. /\ UNCHANGED <<handled_clients, granted, replies, clients, fd_table>>
        /\ Drop(Head(backlog))
        BY <1>4 DEF RejectForeign, NextIteration
  <2>2. Head(backlog) \in Conns
        BY <1>4, AcceptHead DEF RejectForeign
  <2>3. \A j \in 1 .. Len(clients') :
            \E i \in 1 .. Len(clients) : SameEntry(j, i)
        BY <2>1, SameEntries
  <2>4. LinksKept
        BY <1>1, <2>1, <2>2, DropKnown
  <2> QED BY <2>1, <2>3, <2>4 DEF Unanswered
<1>5. CASE PeerStep
  <2>1. PICK c \in Conns :
            \/ PeerConnect(c)
            \/ \E r \in Requests : PeerSend(c, r)
            \/ PeerReceive(c)
            \/ PeerClose(c)
        BY <1>5 DEF PeerStep
  <2>2. UNCHANGED <<handled_clients, granted, clients, fd_table>>
        BY <2>1 DEF PeerConnect, PeerSend, PeerReceive, PeerClose, brokerVars
  <2>3. \A d \in Conns : replies'[d] # <<>> => replies[d] # <<>>
    <3>1. replies \in [Conns -> Seq(Replies)]
          BY DEF BrokerInv, RestOK
    <3>2. CASE replies' = replies
          BY <3>2
    <3>3. CASE PeerReceive(c) \/ PeerClose(c)
      <4>1. replies[c] # <<>> \/ replies'[c] = <<>>
            BY <3>1, <3>3 DEF PeerReceive, PeerClose
      <4>2. \A d \in Conns : d # c => replies'[d] = replies[d]
            BY <3>1, <3>3 DEF PeerReceive, PeerClose
      <4> QED BY <4>1, <4>2
    <3> QED BY <2>1, <3>2, <3>3 DEF PeerConnect, PeerSend
  <2>4. LinksKept
    <3>1. CASE PeerConnect(c)
          BY <1>1, <3>1 DEF PeerConnect, LinksKept, Known, Links
    <3>2. CASE link' = link
          BY <3>2 DEF LinksKept
    <3> QED BY <2>1, <3>1, <3>2 DEF PeerSend, PeerReceive, PeerClose
  <2>5. \A j \in 1 .. Len(clients') :
            \E i \in 1 .. Len(clients) : SameEntry(j, i)
        BY <2>2, SameEntries
  <2> QED BY <2>2, <2>3, <2>4, <2>5 DEF Unanswered
<1> QED BY <1>2, <1>3, <1>4, <1>5

(* A client that is closed without a message.                              *)
LEMMA ClosedUnanswered ==
    ASSUME BrokerInv, TrimClient \/ RefuseClient \/ ReceiveFails
    PROVE  Unanswered
<1>1. /\ link \in Links /\ clients \in Seq(Client)
      /\ fd_table \in [Fd -> Objects]
      /\ GenerationOK(generation, fd_table) /\ SocketsIn(fd_table)
      BY DEF BrokerInv, Owned, ClientsOK, TableOK, SocketsIn
<1>2. UNCHANGED <<handled_clients, granted, replies>>
      BY DEF TrimClient, RefuseClient, ReceiveFails, NoMessage
<1>3. client_index \in 1 .. Len(clients)
  <2>1. CASE RefuseClient \/ ReceiveFails
        BY <2>1, ServingClient DEF RefuseClient, ReceiveFails
  <2>2. CASE TrimClient
    <3>1. client_index > 0 /\ client_index <= Len(clients)
          BY <2>2 DEF TrimClient, BrokerInv, LoopOK
    <3>2. client_index \in Nat /\ Len(clients) \in Nat
          BY <1>1 DEF BrokerInv, RestOK
    <3> QED BY <3>1, <3>2
  <2> QED BY <2>1, <2>2
<1>4. CASE UNCHANGED <<clients, fd_table, link>>
  <2>1. \A j \in 1 .. Len(clients') :
            \E i \in 1 .. Len(clients) : SameEntry(j, i)
        BY <1>4, SameEntries
  <2> QED BY <1>2, <1>4, <2>1 DEF Unanswered, LinksKept
<1>5. CASE ahe_broker_close_client(client_index, clients, generation,
                                   fd_table)
  <2>1. /\ clients' = RemoveClient(clients, client_index)
        /\ Drop(Conn(client_index))
        BY <1>5 DEF ahe_broker_close_client
  <2>2. \A f \in Fd :
            f # clients[client_index].fd /\ fd_table[f].kind = "socket"
                => fd_table'[f] = fd_table[f]
        BY <1>1, <1>5, CloseSockets
  <2>3. \A j \in 1 .. Len(clients') : \E i \in 1 .. Len(clients) :
            i # client_index /\ SameEntry(j, i)
        BY <1>1, <1>3, <2>1, <2>2, CloseEntries
  <2>4. Conn(client_index) \in Conns
        BY <1>3 DEF BrokerInv, Owned, ClientsOK, Conn
  <2>5. LinksKept
        BY <1>1, <2>1, <2>4, DropKnown
  <2> QED BY <1>2, <2>3, <2>5 DEF Unanswered
<1> QED BY <1>4, <1>5 DEF TrimClient, RefuseClient, ReceiveFails

(* A new client has not been handled, and was not known before.            *)
LEMMA AcceptUnanswered ==
    ASSUME BrokerInv, ahe_broker_add_client
    PROVE  Unanswered
<1> DEFINE c == Head(backlog)
<1>1. PICK f \in Fd :
          /\ fd_table[f] = Closed
          /\ fd_table' = [fd_table EXCEPT ![f] = Socket(c)]
          /\ clients' = Append(clients, [fd |-> f, handled_message |-> FALSE])
      BY DEF ahe_broker_add_client, IsNextFd, FreeFds
<1>2. /\ UNCHANGED <<handled_clients, granted, replies>>
      /\ link' = [link EXCEPT ![c] = "served"]
      BY DEF ahe_broker_add_client, NextIteration
<1>3. c \in Conns /\ link[c] = "backlog"
      BY AcceptHead DEF ahe_broker_add_client
<1> HIDE DEF c
<1>4. /\ link \in Links /\ clients \in Seq(Client)
      /\ fd_table \in [Fd -> Objects]
      BY DEF BrokerInv, Owned, ClientsOK, TableOK
<1>5. LinksKept
      BY <1>2, <1>3, <1>4 DEF LinksKept, Known, Links
<1>6. ASSUME NEW j \in 1 .. Len(clients')
      PROVE  \/ \E i \in 1 .. Len(clients) : SameEntry(j, i)
             \/ ~clients'[j].handled_message /\ ~Known(link[Conn(j)'])
  <2>1. Len(clients') = Len(clients) + 1
        BY <1>1, <1>4
  <2>2. CASE j \in 1 .. Len(clients)
    <3>1. clients'[j] = clients[j]
          BY <1>1, <1>4, <2>2
    <3>2. fd_table[clients[j].fd].kind = "socket" /\ clients[j].fd \in Fd
          BY <1>4, <2>2, EntryFd DEF BrokerInv, Owned, ClientsOK
    <3>3. clients[j].fd # f
          BY <1>1, <3>2, ClosedObject
    <3>4. fd_table'[clients[j].fd] = fd_table[clients[j].fd]
          BY <1>1, <1>4, <3>2, <3>3
    <3>5. SameEntry(j, j)
          BY <3>1, <3>4 DEF SameEntry, Conn
    <3> QED BY <2>2, <3>5
  <2>3. CASE j = Len(clients) + 1
    <3>1. clients'[j] = [fd |-> f, handled_message |-> FALSE]
          BY <1>1, <1>4, <2>3
    <3>2. fd_table'[f].id = c
          BY <1>1, <1>4 DEF Socket, Object
    <3>3. Conn(j)' = c
          BY <3>1, <3>2 DEF Conn
    <3> QED BY <1>3, <3>1, <3>3 DEF Known
  <2>4. Len(clients) \in Nat
        BY <1>4
  <2> QED BY <2>1, <2>2, <2>3, <2>4
<1> QED BY <1>2, <1>5, <1>6 DEF Unanswered

(* The end of the broker leaves no client.                                 *)
LEMMA ExitUnanswered ==
    ASSUME BrokerInv, Shutdown \/ Kill
    PROVE  Unanswered
<1>1. /\ UNCHANGED <<handled_clients, granted, replies>>
      /\ clients' = <<>>
      /\ link' = [c \in Conns |-> IF link[c] = "new" THEN "new" ELSE "dropped"]
      BY DEF Shutdown, Kill, Disconnect
<1>2. LinksKept
      BY <1>1 DEF LinksKept, Known
<1>3. 1 .. Len(clients') = {}
      BY <1>1
<1> QED BY <1>1, <1>2, <1>3 DEF Unanswered

(* A message that is handled counts its sender, once.                      *)
LEMMA TurnAnswers ==
    ASSUME BrokerInv,
           \/ ahe_broker_handle_acquire \/ ahe_broker_handle_ready
           \/ HandleAbort \/ HandleDetach \/ HandleOther
    PROVE  \E c \in Conns : AnsweredTo(c)
<1>1. PICK type, reply, gen, table, keep : Turn(type, reply, gen, table, keep)
      BY MessageTurn
<1>2. /\ ahe_broker_receive_message(type) /\ ahe_broker_send_message(reply)
      /\ Finish(gen, table, keep) /\ table \in [Fd -> Objects]
      /\ GenerationOK(gen, table) /\ SocketsIn(table)
      BY <1>1 DEF Turn
<1>3. /\ Serving /\ ~OverQuota
      /\ handled_clients' = IF clients[client_index].handled_message
                            THEN handled_clients ELSE handled_clients + 1
      BY <1>2 DEF ahe_broker_receive_message
<1>4. /\ client_index \in 1 .. Len(clients) /\ clients \in Seq(Client)
      /\ Conn(client_index) \in Conns
      BY <1>3, ServingClient
<1>5. PICK c \in Conns : c = Conn(client_index)
      BY <1>4
<1>6. \A d \in Conns : replies'[d] # <<>> => replies[d] # <<>> \/ d = c
  <2>1. replies \in [Conns -> Seq(Replies)]
        BY DEF BrokerInv, RestOK
  <2>2. \/ replies' = replies
        \/ replies' = [replies EXCEPT ![c] = Append(@, reply)]
        BY <1>2, <1>5 DEF ahe_broker_send_message
  <2> QED BY <2>1, <2>2
<1>7. \A g \in granted' : g \in granted \/ g.conn = c
      BY <1>2, <1>5 DEF ahe_broker_send_message
<1>8. link \in Links
      BY DEF BrokerInv, Owned, ClientsOK
<1> DEFINE cls == [clients EXCEPT ![client_index].handled_message = TRUE]
<1>9. /\ cls \in Seq(Client) /\ Len(cls) = Len(clients)
      /\ cls[client_index].handled_message = TRUE
      /\ \A k \in 1 .. Len(clients) :
            /\ cls[k].fd = clients[k].fd
            /\ k # client_index =>
                  cls[k].handled_message = clients[k].handled_message
  <2>1. \A k \in 1 .. Len(clients) : clients[k] \in Client
        BY <1>4
  <2> DEFINE marked == [clients[client_index] EXCEPT !.handled_message = TRUE]
  <2>2. cls = [clients EXCEPT ![client_index] = marked]
        OBVIOUS
  <2>3. /\ marked \in Client /\ marked.fd = clients[client_index].fd
        /\ marked.handled_message = TRUE
        BY <1>4, <2>1 DEF Client
  <2> HIDE DEF cls, marked
  <2>4. cls \in Seq(Client) /\ Len(cls) = Len(clients)
        BY <1>4, <2>2, <2>3
  <2>5. \A k \in 1 .. Len(clients) :
            cls[k] = IF k = client_index THEN marked ELSE clients[k]
        BY <1>4, <2>2
  <2> QED BY <1>4, <2>3, <2>4, <2>5
<1>10. CASE clients' = cls /\ fd_table' = table /\ link' = link
  <2> HIDE DEF cls
  <2>1. ASSUME NEW j \in 1 .. Len(clients')
        PROVE  \/ \E i \in 1 .. Len(clients) :
                     i # client_index /\ SameEntry(j, i)
               \/ clients'[j].handled_message /\ Conn(j)' = c
    <3>1. j \in 1 .. Len(clients)
          BY <1>9, <1>10
    <3>2. clients[j].fd \in Fd /\ fd_table[clients[j].fd].kind = "socket"
          BY <1>4, <3>1, EntryFd DEF BrokerInv, Owned, ClientsOK
    <3>3. table[clients[j].fd] = fd_table[clients[j].fd]
          BY <1>2, <3>2 DEF SocketsIn
    <3>4. Conn(j)' = Conn(j)
          BY <1>9, <1>10, <3>1, <3>3 DEF Conn
    <3> QED BY <1>5, <1>9, <1>10, <3>1, <3>4 DEF SameEntry
  <2>2. LinksKept
        BY <1>10 DEF LinksKept
  <2> QED BY <1>3, <1>4, <1>5, <1>6, <1>7, <2>1, <2>2 DEF AnsweredTo
<1>11. CASE ahe_broker_close_client(client_index, cls, gen, table)
  <2> HIDE DEF cls
  <2>1. /\ clients' = RemoveClient(cls, client_index) /\ Drop(c)
        BY <1>5, <1>11 DEF ahe_broker_close_client
  <2>2. \A f \in Fd :
            f # clients[client_index].fd /\ fd_table[f].kind = "socket"
                => fd_table'[f] = fd_table[f]
        BY <1>2, <1>11, CloseSockets
  <2>3. \A j \in 1 .. Len(clients') : \E i \in 1 .. Len(clients) :
            i # client_index /\ SameEntry(j, i)
        BY <1>4, <1>9, <2>1, <2>2, CloseEntries
  <2>4. LinksKept
        BY <1>8, <2>1, DropKnown
  <2> QED BY <1>3, <1>4, <1>5, <1>6, <1>7, <2>3, <2>4 DEF AnsweredTo
<1> QED BY <1>2, <1>10, <1>11 DEF Finish

(* The quota before the first step and after each.                         *)
LEMMA QuotaNext ==
    ASSUME BrokerInv, QuotaInv, [Next]_vars
    PROVE  QuotaInv'
<1>1. CASE \/ ahe_broker_handle_acquire \/ ahe_broker_handle_ready
           \/ HandleAbort \/ HandleDetach \/ HandleOther
      BY <1>1, TurnAnswers, AnsweredQuota
<1>2. CASE \/ LoopStops \/ LoopContinues \/ LoopClosesListener \/ TrimDone
           \/ Setup \/ SetupFails \/ Poll \/ SkipClient \/ SkipAccept
           \/ RejectForeign \/ AcceptFails \/ ahe_broker_handle_signal
           \/ PeerStep \/ UNCHANGED vars
      BY <1>2, OuterUnanswered, UnansweredQuota
<1>3. CASE \/ TrimClient \/ RefuseClient \/ ReceiveFails
           \/ ahe_broker_add_client \/ Shutdown \/ Kill
      BY <1>3, ClosedUnanswered, AcceptUnanswered, ExitUnanswered,
         UnansweredQuota
<1> QED BY <1>1, <1>2, <1>3
        DEF Next, BrokerStep, ahe_broker_handle_client_message

(* Those who are answered are counted, so there are no more of them.       *)
LEMMA QuotaSafe ==
    ASSUME BrokerInv, QuotaInv
    PROVE  QuotaHeld
<1>1. PICK H \in SUBSET Conns : HandledAre(H)
      BY DEF QuotaInv
<1> DEFINE A == {c \in Conns : replies[c] # <<>>} \cup {g.conn : g \in granted}
<1>2. IsFiniteSet(H) /\ Cardinality(H) = handled_clients /\ A \subseteq H
      BY <1>1 DEF HandledAre
<1> HIDE DEF A
<1>3. IsFiniteSet(A) /\ Cardinality(A) <= Cardinality(H)
      BY <1>2, FS_Subset
<1>4. Cardinality(A) \in Nat /\ handled_clients \in Nat /\ MaxClients \in Nat
      BY <1>3, FS_CardinalityType, BrokerAssumption DEF BrokerInv, RestOK
<1>5. MaxClients # 0 => handled_clients <= MaxClients
      BY DEF QuotaInv
<1>6. MaxClients # 0 => Cardinality(A) <= MaxClients
      BY <1>2, <1>3, <1>4, <1>5
<1> QED BY <1>5, <1>6 DEF A, QuotaHeld

(* Nobody was handled before the first step.                               *)
LEMMA QuotaInit == Init => QuotaInv
<1> SUFFICES ASSUME Init PROVE QuotaInv
    OBVIOUS
<1>1. /\ handled_clients = 0 /\ clients = <<>> /\ granted = {}
      /\ \A c \in Conns : replies[c] = <<>>
      BY DEF Init
<1>2. IsFiniteSet({}) /\ Cardinality({}) = 0
      BY FS_EmptySet
<1>3. 1 .. Len(clients) = {}
      BY <1>1
<1>4. HandledAre({})
      BY <1>1, <1>2, <1>3 DEF HandledAre
<1> QED BY <1>1, <1>4, BrokerAssumption DEF QuotaInv

(* However many connections send at once and however late, no more than    *)
(* --max-clients of them are answered.                                     *)
THEOREM QuotaNeverExceeded == Spec => []QuotaHeld
<1>1. Init => QuotaInv
      BY QuotaInit
<1>2. BrokerInv /\ QuotaInv /\ [Next]_vars => QuotaInv'
      BY QuotaNext
<1>3. BrokerInv /\ QuotaInv => QuotaHeld
      BY QuotaSafe
<1> QED BY <1>1, <1>2, <1>3, BrokerInvariant, PTL DEF Spec

=============================================================================
