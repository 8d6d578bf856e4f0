-------------------------- MODULE AheSystem_proofs ---------------------------
(***************************************************************************)
(* Any number of PHP processes, whatever they map and however they and the *)
(* broker fail: they share memory as docs/architecture.md promises.        *)
(***************************************************************************)
EXTENDS AheSystem, AheBrokerRefinement_proofs, SequenceTheorems

USE DEF NoFd, NoId

(* What a process was granted, and its memory as it is completed.          *)
GrantsOf(p) == {g \in granted : g.conn = p}

Completed(m, address, key) == [mapping |-> m, base |-> address, key |-> key]

Record(p) == Completed(broker[p].cache, broker[p].base, broker[p].cache_key)

Unbuilt(m) == \A b \in built : b.mapping # m

-----------------------------------------------------------------------------
(* The conversation of one process with the broker.                        *)

Quiet(p) == requests[p] = <<>> /\ replies[p] = <<>>

(* A reply with descriptors is the one grant the process ever gets: of     *)
(* memory nobody completed, or of completed memory with its own key.       *)
Answer(p, reply) ==
    reply.cache # NoId =>
        \E g \in granted :
            /\ GrantsOf(p) = {g}
            /\ reply.type = g.type
            /\ reply.cache = g.cache /\ reply.lock = g.lock
            /\ reply.mapping_base = g.mapping_base
            /\ g.type = "CREATE" => Unbuilt(g.cache)
            /\ g.type = "ATTACH" =>
                  Completed(g.cache, g.mapping_base, broker[p].cache_key)
                      \in built

(* The request waits, or the reply does, or the connection is lost.        *)
Asking(p) ==
    /\ broker[p].cache_key \in Keys
    /\ \/ /\ Len(requests[p]) = 1 /\ requests[p][1].type = "ACQUIRE"
          /\ replies[p] = <<>> /\ GrantsOf(p) = {}
       \/ Quiet(p) /\ GrantsOf(p) = {}
       \/ /\ requests[p] = <<>> /\ Len(replies[p]) = 1
          /\ Answer(p, replies[p][1])

(* The broker retains what the process built, or is gone.                  *)
Acknowledged(p) ==
    \/ pc = "exited"
    \/ /\ generation.state = "READY"
       /\ CacheOf = broker[p].cache
       /\ generation.mapping_base = broker[p].base

Publishing(p) ==
    \/ /\ Len(requests[p]) = 1 /\ requests[p][1].type = "READY"
       /\ replies[p] = <<>>
    \/ Quiet(p)
    \/ /\ requests[p] = <<>> /\ Len(replies[p]) = 1
       /\ replies[p][1].type = "ACK" => Acknowledged(p)

(* A process asks first and once, and whatever it sends later, READY is of *)
(* memory that it completed.                                               *)
RequestsOK(p) ==
    /\ link[p] = "new" => requests[p] = <<>>
    /\ \A i \in 1 .. Len(requests[p]) : requests[p][i].type = "ACQUIRE" =>
          i = 1 /\ at[p] \notin {"idle", "connected"}
    /\ peer[p] = "open" =>
          \A i \in 1 .. Len(requests[p]) :
              /\ requests[p][i].type = "ACQUIRE" =>
                    /\ Len(requests[p]) = 1 /\ GrantsOf(p) = {}
                    /\ at[p] \in {"acquiring", "failed"}
                    /\ requests[p][i].cache_key = broker[p].cache_key
              /\ requests[p][i].type = "READY" =>
                    \A g \in GrantsOf(p) : g.type = "CREATE" =>
                        Completed(g.cache, requests[p][i].mapping_base,
                                  broker[p].cache_key) \in built

(* What a process has mapped.                                              *)
MappedOK(p) ==
    IF broker[p].cache = NoId THEN broker[p].base = 0
    ELSE /\ broker[p].base \in Addresses /\ broker[p].cache_key \in Keys
         /\ \E g \in granted :
               /\ GrantsOf(p) = {g}
               /\ broker[p].cache = g.cache /\ broker[p].lock = g.lock
               /\ broker[p].creator <=> g.type = "CREATE"
               /\ broker[p].reattached <=> g.type = "ATTACH"
         /\ broker[p].creator => \A b \in built :
               b.mapping = broker[p].cache => b = Record(p)
         /\ broker[p].reattached => Record(p) \in built
         /\ broker[p].ready => Acknowledged(p)

(* What it has where.                                                      *)
PlaceOK(p) ==
    /\ at[p] \in {"idle", "connected", "acquiring", "failed", "detach",
                  "detaching", "fallback", "gone"} => broker[p].cache = NoId
    /\ at[p] \in {"idle", "connected", "acquiring"} => ~broker[p].ready
    /\ at[p] = "connected" => Quiet(p) /\ GrantsOf(p) = {}
    /\ at[p] = "acquiring" => Asking(p)
    /\ at[p] \in {"starting", "restoring"} =>
          Quiet(p) /\ broker[p].cache # NoId
    /\ at[p] = "starting" => broker[p].creator /\ Unbuilt(broker[p].cache)
    /\ at[p] = "restoring" => broker[p].reattached
    /\ at[p] = "publishing" => Publishing(p)
    /\ at[p] \in {"publishing", "abandon", "abandoning", "running",
                  "locked"} =>
          broker[p].cache # NoId /\ Record(p) \in built

ProcessOK(p) == RequestsOK(p) /\ MappedOK(p) /\ PlaceOK(p)

(* What was completed, and the record of the broker.                       *)
BuiltOK ==
    /\ \A b, c \in built : b.mapping = c.mapping => b = c
    /\ \A b \in built : \E g \in granted :
          g.type = "CREATE" /\ g.cache = b.mapping
    /\ generation.state = "READY" =>
          Completed(CacheOf, generation.mapping_base, generation.cache_key)
              \in built
    /\ generation.state = "INITIALIZING" /\ peer[OwnerOf] = "open" =>
          generation.cache_key = broker[OwnerOf].cache_key

ProcTypes ==
    /\ at \in [Conns -> Places]
    /\ broker \in [Conns -> BrokerClient]
    /\ locks \in [Conns -> 0 .. MaxLocks]
    /\ built \subseteq [mapping : Nat, base : Addresses, key : Keys]

SystemInv ==
    /\ ServiceInv /\ QuotaInv
    /\ ProcTypes
    /\ \A p \in Conns : ProcessOK(p)
    /\ BuiltOK
    /\ OneWriter

-----------------------------------------------------------------------------
(* What a process does on its socket.                                      *)

(* What the processes do not touch.                                        *)
Still == UNCHANGED <<pc, generation, fd_table, granted, memfds>>

SameConn(q) ==
    /\ requests'[q] = requests[q] /\ replies'[q] = replies[q]
    /\ peer'[q] = peer[q] /\ link'[q] = link[q]

SameProc(q) == at'[q] = at[q] /\ broker'[q] = broker[q]

Speaks(p) ==
    \/ UNCHANGED vars
    \/ PeerConnect(p)
    \/ \E r \in Requests : PeerSend(p, r)
    \/ PeerReceive(p)
    \/ PeerClose(p)

(* The types that the proofs below use.                                    *)
LEMMA ConnTypes ==
    ASSUME BrokerInv
    PROVE  /\ requests \in [Conns -> Seq(Requests)]
           /\ replies \in [Conns -> Seq(Replies)]
           /\ peer \in [Conns -> {"open", "closed", "reset"}]
           /\ link \in Links
           /\ granted \subseteq Grant
BY DEF BrokerInv, RestOK, Owned, ClientsOK

(* It changes nothing but its own connection.                              *)
LEMMA SpeaksLocal ==
    ASSUME BrokerInv, NEW p \in Conns, Speaks(p)
    PROVE  /\ Still
           /\ \A q \in Conns : q # p => SameConn(q)
           /\ [Next]_vars
<1>1. UNCHANGED vars \/ PeerStep
      BY DEF Speaks, PeerStep
<1>2. [Next]_vars
      BY <1>1 DEF Next
<1>3. Still
      BY DEF Speaks, Still, vars, PeerConnect, PeerSend, PeerReceive,
         PeerClose, brokerVars
<1>4. \A q \in Conns : q # p => SameConn(q)
      BY ConnTypes DEF Speaks, SameConn, vars, PeerConnect, PeerSend,
         PeerReceive, PeerClose, Links
<1> QED BY <1>2, <1>3, <1>4

(* Sending adds a request.                                                 *)
LEMMA SendConn ==
    ASSUME BrokerInv, NEW p \in Conns, NEW r \in Requests, PeerSend(p, r)
    PROVE  /\ Speaks(p)
           /\ requests'[p] = Append(requests[p], r)
           /\ requests[p] \in Seq(Requests)
           /\ replies'[p] = replies[p] /\ peer'[p] = peer[p]
           /\ link'[p] = link[p] /\ link[p] # "new"
BY ConnTypes DEF Speaks, PeerSend, Connected

(* Receiving takes the oldest reply.                                       *)
LEMMA ReceiveConn ==
    ASSUME BrokerInv, NEW p \in Conns, PeerReceive(p)
    PROVE  /\ Speaks(p)
           /\ replies[p] # <<>> /\ replies'[p] = Tail(replies[p])
           /\ replies[p] \in Seq(Replies)
           /\ requests'[p] = requests[p] /\ peer'[p] = peer[p]
           /\ link'[p] = link[p]
BY ConnTypes DEF Speaks, PeerReceive

(* Closing loses the replies, not the requests.                            *)
LEMMA CloseConn ==
    ASSUME BrokerInv, NEW p \in Conns, PeerClose(p)
    PROVE  /\ Speaks(p)
           /\ peer'[p] # "open" /\ replies'[p] = <<>>
           /\ requests'[p] = requests[p] /\ link'[p] = link[p]
BY ConnTypes DEF Speaks, PeerClose

(* Connecting.                                                             *)
LEMMA ConnectConn ==
    ASSUME BrokerInv, NEW p \in Conns, PeerConnect(p)
    PROVE  /\ Speaks(p)
           /\ link[p] = "new" /\ link'[p] = "backlog"
           /\ requests'[p] = requests[p] /\ replies'[p] = replies[p]
           /\ peer'[p] = peer[p]
BY ConnTypes DEF Speaks, PeerConnect, Links

(* Or nothing.                                                             *)
LEMMA SilentConn ==
    ASSUME NEW p \in Conns, UNCHANGED vars
    PROVE  Speaks(p) /\ SameConn(p)
BY DEF Speaks, SameConn, vars

(* What the parts of the invariant depend on.                              *)
LEMMA StillObjects ==
    ASSUME Still
    PROVE  /\ CacheOf' = CacheOf /\ OwnerOf' = OwnerOf
           /\ \A p : GrantsOf(p)' = GrantsOf(p)
BY DEF Still, CacheOf, OwnerOf, GrantsOf

(* The other processes are where they were.                                *)
LEMMA OtherProcess ==
    ASSUME NEW q \in Conns, ProcessOK(q), Still, built' = built,
           SameConn(q), SameProc(q)
    PROVE  ProcessOK(q)'
<1>1. /\ CacheOf' = CacheOf /\ GrantsOf(q)' = GrantsOf(q)
      BY StillObjects
<1>2. pc' = pc /\ generation' = generation /\ granted' = granted
      BY DEF Still
<1>3. RequestsOK(q)'
      BY <1>1, <1>2 DEF ProcessOK, RequestsOK, SameConn, SameProc
<1>4. Acknowledged(q)' = Acknowledged(q)
      BY <1>1, <1>2 DEF Acknowledged, SameProc
<1>5. Record(q)' = Record(q)
      BY DEF Record, Completed, SameProc
<1>6. MappedOK(q)'
      BY <1>1, <1>2, <1>4, <1>5 DEF ProcessOK, MappedOK, SameProc
<1>7. PlaceOK(q)'
      BY <1>1, <1>2, <1>4, <1>5 DEF ProcessOK, PlaceOK, SameProc, SameConn,
         Quiet, Asking, Answer, Unbuilt, Completed, Publishing
<1> QED BY <1>3, <1>6, <1>7 DEF ProcessOK

-----------------------------------------------------------------------------
(* What a process keeps when it goes on.                                   *)

(* Its requests stay in order when none is added.                          *)
LEMMA RequestsKept ==
    ASSUME NEW p \in Conns, RequestsOK(p), Still, built \subseteq built',
           requests'[p] = requests[p],
           link'[p] = "new" => link[p] = "new",
           at'[p] \notin {"idle", "connected"},
           peer'[p] = "open" =>
               /\ peer[p] = "open"
               /\ broker'[p].cache_key = broker[p].cache_key
               /\ \/ requests[p] = <<>> \/ at'[p] = "failed"
                  \/ at[p] \notin {"acquiring", "failed"}
    PROVE  RequestsOK(p)'
<1>1. GrantsOf(p)' = GrantsOf(p)
      BY StillObjects
<1>2. requests[p] = <<>> => 1 .. Len(requests[p]) = {}
      OBVIOUS
<1>3. CASE peer'[p] # "open"
      BY <1>3 DEF RequestsOK
<1>4. CASE peer'[p] = "open"
      BY <1>1, <1>2, <1>4 DEF RequestsOK
<1> QED BY <1>3, <1>4

(* What it has mapped stays mapped.                                        *)
LEMMA MappedKept ==
    ASSUME NEW p \in Conns, MappedOK(p), Still, built' = built,
           broker'[p].cache = broker[p].cache,
           broker'[p].lock = broker[p].lock,
           broker'[p].base = broker[p].base,
           broker'[p].cache_key = broker[p].cache_key,
           broker'[p].creator = broker[p].creator,
           broker'[p].reattached = broker[p].reattached,
           broker'[p].ready = broker[p].ready
    PROVE  MappedOK(p)'
<1>1. CacheOf' = CacheOf /\ GrantsOf(p)' = GrantsOf(p)
      BY StillObjects
<1>2. pc' = pc /\ generation' = generation /\ granted' = granted
      BY DEF Still
<1>3. Acknowledged(p)' = Acknowledged(p)
      BY <1>1, <1>2 DEF Acknowledged
<1>4. Record(p)' = Record(p)
      BY DEF Record, Completed
<1> QED BY <1>1, <1>2, <1>3, <1>4 DEF MappedOK

(* The owner of a generation under construction was granted it.            *)
LEMMA OwnerGrant ==
    ASSUME BrokerInv, generation.state = "INITIALIZING"
    PROVE  /\ OwnerOf \in Conns
           /\ \E g \in GrantsOf(OwnerOf) :
                  g.type = "CREATE" /\ g.cache = CacheOf
<1>1. PICK i \in 1 .. Len(clients) :
          /\ clients[i].fd = generation.creator_fd
          /\ \E g \in granted :
                /\ g.conn = fd_table[clients[i].fd].id /\ g.type = "CREATE"
                /\ g.cache = fd_table[generation.cache_fd].id
                /\ g.lock = fd_table[generation.lock_fd].id
      BY DEF BrokerInv, CreatorOK
<1>2. clients[i].fd \in Fd /\ fd_table[clients[i].fd].id \in Conns
      BY EntryFd DEF BrokerInv, Owned, ClientsOK
<1>3. generation.creator_fd # -1
      BY <1>1, <1>2 DEF Fd
<1>4. generation.cache_fd # -1
      BY DEF BrokerInv, Owned, GenerationOK
<1>5. /\ OwnerOf = fd_table[clients[i].fd].id
      /\ CacheOf = fd_table[generation.cache_fd].id
      BY <1>1, <1>3, <1>4 DEF OwnerOf, CacheOf
<1> QED BY <1>1, <1>2, <1>5 DEF GrantsOf

(* What was completed, when nothing is.                                    *)
LEMMA BuiltKept ==
    ASSUME BrokerInv, BuiltOK, Still, built' = built, NEW p \in Conns,
           \A q \in Conns : q # p => SameConn(q) /\ SameProc(q),
           peer'[p] = "open" =>
               /\ peer[p] = "open"
               /\ \/ broker'[p].cache_key = broker[p].cache_key
                  \/ GrantsOf(p) = {}
    PROVE  BuiltOK'
<1>1. /\ CacheOf' = CacheOf /\ OwnerOf' = OwnerOf
      /\ generation' = generation /\ granted' = granted
      BY StillObjects DEF Still
<1>2. ASSUME generation.state = "INITIALIZING", peer'[OwnerOf] = "open"
      PROVE  generation.cache_key = broker'[OwnerOf].cache_key
  <2>1. OwnerOf \in Conns /\ GrantsOf(OwnerOf) # {}
        BY <1>2, OwnerGrant
  <2>2. CASE OwnerOf # p
        BY <1>2, <2>1, <2>2 DEF SameConn, SameProc, BuiltOK
  <2>3. CASE OwnerOf = p
        BY <1>2, <2>1, <2>3 DEF BuiltOK
  <2> QED BY <2>2, <2>3
<1>3. generation'.state = "INITIALIZING" /\ peer'[OwnerOf'] = "open" =>
          generation'.cache_key = broker'[OwnerOf'].cache_key
      BY <1>1, <1>2
<1> QED BY <1>1, <1>3 DEF BuiltOK, Completed

(* The parts of the invariant put together again.                          *)
LEMMA ProcessStepKeeps ==
    ASSUME SystemInv, NEW p \in Conns, Speaks(p),
           \A q \in Conns : q # p => SameProc(q),
           built' = built, ProcTypes', ProcessOK(p)', OneWriter',
           peer'[p] = "open" =>
               /\ peer[p] = "open"
               /\ \/ broker'[p].cache_key = broker[p].cache_key
                  \/ GrantsOf(p) = {}
    PROVE  SystemInv'
<1>1. ServiceInv /\ QuotaInv /\ BrokerInv
      BY DEF SystemInv, ServiceInv
<1>2. Still /\ [Next]_vars /\ \A q \in Conns : q # p => SameConn(q)
      BY <1>1, SpeaksLocal
<1>3. ServiceInv' /\ QuotaInv'
      BY <1>1, <1>2, ServiceInvNext, QuotaNext
<1>4. \A q \in Conns : q # p => ProcessOK(q)'
  <2> SUFFICES ASSUME NEW q \in Conns, q # p PROVE ProcessOK(q)'
      OBVIOUS
  <2>1. ProcessOK(q)
        BY DEF SystemInv
  <2> QED BY <1>2, <2>1, OtherProcess
<1>5. BuiltOK'
      BY <1>1, <1>2, BuiltKept DEF SystemInv
<1> QED BY <1>3, <1>4, <1>5 DEF SystemInv

(* Nobody comes to hold a lock.                                            *)
LEMMA WriterKept ==
    ASSUME OneWriter, NEW p \in Conns,
           \A q \in Conns : q # p => SameProc(q), at'[p] # "locked"
    PROVE  OneWriter'
BY DEF OneWriter, SameProc

-----------------------------------------------------------------------------
(* The steps of a process that has its memory.                             *)

(* A step that changes the place and the client record of one process.     *)
Moves(p, there, client) ==
    /\ Speaks(p)
    /\ Go(p, there) /\ there \in Places
    /\ broker' = [broker EXCEPT ![p] = client] /\ client \in BrokerClient

(* Where everybody is after it.                                            *)
LEMMA MovedTo ==
    ASSUME ProcTypes, NEW p \in Conns, NEW there, NEW client,
           Moves(p, there, client)
    PROVE  /\ at'[p] = there /\ broker'[p] = client
           /\ at' \in [Conns -> Places]
           /\ broker' \in [Conns -> BrokerClient]
           /\ \A q \in Conns : q # p => SameProc(q)
BY DEF ProcTypes, Moves, Go, SameProc

(* A step that leaves the record alone is one that writes it again.        *)
LEMMA MovesOnly ==
    ASSUME ProcTypes, NEW p \in Conns, NEW there \in Places, Speaks(p),
           Go(p, there), broker' = broker
    PROVE  Moves(p, there, broker[p])
BY DEF ProcTypes, Moves

(* It keeps the invariant if it keeps that of the process.                 *)
LEMMA MoveKeeps ==
    ASSUME SystemInv, NEW p \in Conns, NEW there, NEW client,
           Moves(p, there, client), there # "locked",
           built' = built, locks' = locks, ProcessOK(p)',
           peer'[p] = "open" =>
               /\ peer[p] = "open"
               /\ client.cache_key = broker[p].cache_key \/ GrantsOf(p) = {}
    PROVE  SystemInv'
<1>1. ProcTypes /\ OneWriter /\ Speaks(p)
      BY DEF SystemInv, Moves
<1>2. /\ at'[p] = there /\ broker'[p] = client
      /\ at' \in [Conns -> Places] /\ broker' \in [Conns -> BrokerClient]
      /\ \A q \in Conns : q # p => SameProc(q)
      BY <1>1, MovedTo
<1>3. ProcTypes'
      BY <1>1, <1>2 DEF ProcTypes
<1>4. OneWriter'
      BY <1>1, <1>2, WriterKept
<1> QED BY <1>1, <1>2, <1>3, <1>4, ProcessStepKeeps

(* A request that is neither the first nor of unbuilt memory.              *)
LEMMA RequestsSent ==
    ASSUME NEW p \in Conns, RequestsOK(p), Still, built \subseteq built',
           NEW r \in Requests, requests[p] \in Seq(Requests),
           requests'[p] = Append(requests[p], r),
           r.type # "ACQUIRE",
           r.type = "READY" =>
               \A g \in GrantsOf(p) : g.type = "CREATE" =>
                   Completed(g.cache, r.mapping_base, broker[p].cache_key)
                       \in built',
           link'[p] # "new", peer[p] = "open",
           at[p] \notin {"acquiring", "failed"},
           at'[p] \notin {"idle", "connected"},
           broker'[p].cache_key = broker[p].cache_key
    PROVE  RequestsOK(p)'
<1>1. GrantsOf(p)' = GrantsOf(p)
      BY StillObjects
<1> DEFINE n == Len(requests[p])
<1>2. /\ n \in Nat /\ Len(requests'[p]) = n + 1
      /\ \A i \in 1 .. n : requests'[p][i] = requests[p][i]
      /\ requests'[p][n + 1] = r
      OBVIOUS
<1>3. \A i \in 1 .. n : requests[p][i].type # "ACQUIRE"
      BY DEF RequestsOK
<1>4. \A i \in 1 .. n : requests[p][i].type = "READY" =>
          \A g \in GrantsOf(p) : g.type = "CREATE" =>
              Completed(g.cache, requests[p][i].mapping_base,
                        broker[p].cache_key) \in built
      BY DEF RequestsOK
<1> HIDE DEF n
<1>5. \A i \in 1 .. Len(requests'[p]) : i \in 1 .. n \/ i = n + 1
      BY <1>2
<1>6. \A i \in 1 .. Len(requests'[p]) : requests'[p][i].type # "ACQUIRE"
      BY <1>2, <1>3, <1>5
<1>7. \A i \in 1 .. Len(requests'[p]) : requests'[p][i].type = "READY" =>
          \A g \in GrantsOf(p)' : g.type = "CREATE" =>
              Completed(g.cache, requests'[p][i].mapping_base,
                        broker'[p].cache_key) \in built'
      BY <1>1, <1>2, <1>4, <1>5
<1> QED BY <1>6, <1>7 DEF RequestsOK

(* The client record as far as the memory is concerned.                    *)
SameMapping(client, old) ==
    /\ client.cache = old.cache /\ client.lock = old.lock
    /\ client.base = old.base /\ client.cache_key = old.cache_key
    /\ client.creator = old.creator /\ client.reattached = old.reattached
    /\ client.ready = old.ready

(* From one place to another with the same memory.                         *)
LEMMA LateKeeps ==
    ASSUME SystemInv, NEW p \in Conns, NEW there, NEW client,
           Moves(p, there, client), SameMapping(client, broker[p]),
           built' = built, locks' = locks,
           \/ requests'[p] = requests[p]
           \/ \E r \in Requests : /\ requests'[p] = Append(requests[p], r)
                                  /\ r.type \in {"ABORT", "DETACH"}
                                  /\ peer[p] = "open" /\ link[p] # "new",
           link'[p] = link[p], peer'[p] = peer[p],
           at[p] \notin {"idle", "connected", "acquiring", "failed"},
           there \in {"abandon", "abandoning", "abort", "aborting",
                      "running", "leaving", "detaching"},
           there \in {"abandon", "abandoning", "running"} =>
               at[p] \in {"publishing", "abandon", "abandoning", "running",
                          "locked", "restoring"},
           there = "detaching" => at[p] = "detach"
    PROVE  SystemInv'
<1>1. /\ ProcTypes /\ BrokerInv /\ Speaks(p)
      /\ RequestsOK(p) /\ MappedOK(p) /\ PlaceOK(p)
      BY DEF SystemInv, ServiceInv, Moves, ProcessOK
<1>2. at'[p] = there /\ broker'[p] = client
      BY <1>1, MovedTo
<1>3. Still /\ requests[p] \in Seq(Requests)
      BY <1>1, SpeaksLocal, ConnTypes
<1>4. client.cache_key = broker[p].cache_key
      BY DEF SameMapping
<1>5. RequestsOK(p)'
  <2>1. CASE requests'[p] = requests[p]
        BY <1>1, <1>2, <1>3, <1>4, <2>1, RequestsKept
  <2>2. CASE \E r \in Requests : /\ requests'[p] = Append(requests[p], r)
                                 /\ r.type \in {"ABORT", "DETACH"}
                                 /\ peer[p] = "open" /\ link[p] # "new"
        BY <1>1, <1>2, <1>3, <1>4, <2>2, RequestsSent
  <2> QED BY <2>1, <2>2
<1>6. MappedOK(p)'
      BY <1>1, <1>2, <1>3, MappedKept DEF SameMapping
<1>7. Record(p)' = Record(p)
      BY <1>2 DEF Record, SameMapping
<1>8. there \in {"abandon", "abandoning", "running"} =>
          broker[p].cache # 0 /\ Record(p) \in built
      BY <1>1 DEF PlaceOK, MappedOK
<1>9. there = "detaching" => broker[p].cache = 0
      BY <1>1 DEF PlaceOK
<1>10. PlaceOK(p)'
      BY <1>2, <1>7, <1>8, <1>9 DEF PlaceOK, SameMapping
<1> QED BY <1>4, <1>5, <1>6, <1>10, MoveKeeps DEF ProcessOK

(* What a client record is made of.                                        *)
LEMMA ClientRecord ==
    ASSUME ProcTypes, NEW p \in Conns, NEW f \in BOOLEAN
    PROVE  LET client == [broker[p] EXCEPT !.warned = f]
           IN  /\ client \in BrokerClient
               /\ SameMapping(client, broker[p])
               /\ SameMapping(broker[p], broker[p])
BY DEF ProcTypes, BrokerClient, SameMapping

-----------------------------------------------------------------------------
(* Action by action: those that keep what is mapped.                       *)

(* The requests of the processes are among those the broker knows.         *)
LEMMA SentRequests ==
    /\ Message("ABORT") \in Requests /\ Message("ABORT").type = "ABORT"
    /\ Message("DETACH") \in Requests /\ Message("DETACH").type = "DETACH"
    /\ \A k \in Keys : /\ Acquire(k) \in Requests
                       /\ Acquire(k).type = "ACQUIRE"
                       /\ Acquire(k).cache_key = k
    /\ \A a \in Addresses : /\ Ready(a) \in Requests
                            /\ Ready(a).type = "READY"
                            /\ Ready(a).mapping_base = a
BY SystemAssumption DEF ProcessRequests, Message, Acquire, Ready

(* Publication fails, restoring ends, startup fails, the lock is released, *)
(* the shutdown goes on.                                                   *)
LEMMA PlainMoves ==
    ASSUME SystemInv, NEW p \in Conns,
           \/ PublishGivesUp(p) \/ Restore(p) \/ StartupFails(p)
           \/ ahe_broker_client_unlock(p) \/ DetachAnswered(p)
    PROVE  SystemInv'
<1>1. ProcTypes /\ BrokerInv
      BY DEF SystemInv, ServiceInv
<1>2. PICK there \in {"abandon", "running", "abort", "leaving"} :
          /\ Go(p, there)
          /\ broker' = broker /\ built' = built /\ locks' = locks
          /\ UNCHANGED vars \/ PeerReceive(p)
          /\ at[p] \notin {"idle", "connected", "acquiring", "failed"}
          /\ there \in {"abandon", "running"} =>
                at[p] \in {"publishing", "restoring", "locked"}
      BY DEF PublishGivesUp, Restore, StartupFails, DetachAnswered,
         ahe_broker_client_unlock, ReceiveNothing
<1>3. /\ Speaks(p) /\ requests'[p] = requests[p]
      /\ link'[p] = link[p] /\ peer'[p] = peer[p]
      BY <1>1, <1>2, SilentConn, ReceiveConn DEF SameConn
<1>4. Moves(p, there, broker[p])
      BY <1>1, <1>2, <1>3, MovesOnly DEF Places
<1>5. SameMapping(broker[p], broker[p])
      BY DEF SameMapping
<1> QED BY <1>2, <1>3, <1>4, <1>5, LateKeeps

(* The shutdown says so to the broker.                                     *)
LEMMA ShutdownMove ==
    ASSUME SystemInv, NEW p \in Conns, ahe_broker_client_shutdown(p)
    PROVE  SystemInv'
<1>1. ProcTypes /\ BrokerInv
      BY DEF SystemInv, ServiceInv
<1>2. /\ broker' = broker /\ built' = built /\ locks' = locks
      /\ at[p] = "detach"
      BY DEF ahe_broker_client_shutdown
<1>3. SameMapping(broker[p], broker[p])
      BY DEF SameMapping
<1>4. CASE PeerSend(p, Message("DETACH")) /\ Go(p, "detaching")
  <2>1. /\ Speaks(p)
        /\ requests'[p] = Append(requests[p], Message("DETACH"))
        /\ link'[p] = link[p] /\ peer'[p] = peer[p] /\ link[p] # "new"
        BY <1>1, <1>4, SendConn, SentRequests
  <2>2. peer[p] = "open"
        BY <1>4 DEF PeerSend
  <2>3. Moves(p, "detaching", broker[p])
        BY <1>1, <1>2, <1>4, <2>1, MovesOnly DEF Places
  <2> QED BY <1>2, <1>3, <2>1, <2>2, <2>3, SentRequests, LateKeeps
<1>5. CASE SendFails(p) /\ Go(p, "leaving")
  <2>1. Speaks(p) /\ SameConn(p)
        BY <1>5, SilentConn DEF SendFails
  <2>2. Moves(p, "leaving", broker[p])
        BY <1>1, <1>2, <1>5, <2>1, MovesOnly DEF Places
  <2> QED BY <1>2, <1>3, <2>1, <2>2, LateKeeps DEF SameConn
<1> QED BY <1>4, <1>5 DEF ahe_broker_client_shutdown

(* ABORT is sent.                                                          *)
LEMMA AbortMove ==
    ASSUME SystemInv, NEW p \in Conns, ahe_broker_client_abort(p)
    PROVE  SystemInv'
<1>1. ProcTypes /\ BrokerInv
      BY DEF SystemInv, ServiceInv
<1>2. /\ built' = built /\ locks' = locks
      /\ at[p] \in {"abandon", "abort"}
      BY DEF ahe_broker_client_abort
<1>3. SameMapping(broker[p], broker[p])
      BY DEF SameMapping
<1>4. CASE PeerSend(p, Message("ABORT")) /\ broker' = broker
  <2>1. PICK there : /\ there = IF at[p] = "abandon" THEN "abandoning"
                                ELSE "aborting"
                     /\ Go(p, there)
        BY <1>2, <1>4 DEF ahe_broker_client_abort, SendFails, Connected,
           PeerSend
  <2>2. /\ Speaks(p)
        /\ requests'[p] = Append(requests[p], Message("ABORT"))
        /\ link'[p] = link[p] /\ peer'[p] = peer[p] /\ link[p] # "new"
        BY <1>1, <1>4, SendConn, SentRequests
  <2>3. peer[p] = "open"
        BY <1>4 DEF PeerSend
  <2>4. Moves(p, there, broker[p])
        BY <1>1, <1>4, <2>1, <2>2, MovesOnly DEF Places
  <2> QED BY <1>2, <1>3, <2>1, <2>2, <2>3, <2>4, SentRequests, LateKeeps
<1>5. CASE SendFails(p) /\ Go(p, IF at[p] = "abandon" THEN "running"
                                 ELSE "leaving")
           /\ broker' = [broker EXCEPT ![p].warned = at[p] = "abandon"]
  <2>1. PICK there : /\ there = IF at[p] = "abandon" THEN "running"
                                ELSE "leaving"
                     /\ Go(p, there)
        BY <1>5
  <2>2. Speaks(p) /\ SameConn(p)
        BY <1>5, SilentConn DEF SendFails
  <2> DEFINE client == [broker[p] EXCEPT !.warned = at[p] = "abandon"]
  <2>3. client \in BrokerClient /\ SameMapping(client, broker[p])
    <3>1. (at[p] = "abandon") \in BOOLEAN
          OBVIOUS
    <3> QED BY <1>1, <3>1, ClientRecord
  <2>4. broker' = [broker EXCEPT ![p] = client]
        BY <1>5
  <2> HIDE DEF client
  <2>5. Moves(p, there, client)
        BY <2>1, <2>2, <2>3, <2>4 DEF Places, Moves
  <2> QED BY <1>2, <2>1, <2>2, <2>3, <2>5, LateKeeps DEF SameConn
<1> QED BY <1>4, <1>5 DEF ahe_broker_client_abort

(* Its answer is ignored.                                                  *)
LEMMA AbortedMove ==
    ASSUME SystemInv, NEW p \in Conns, AbortAnswered(p)
    PROVE  SystemInv'
<1>1. ProcTypes /\ BrokerInv
      BY DEF SystemInv, ServiceInv
<1>2. /\ built' = built /\ locks' = locks
      /\ at[p] \in {"abandoning", "aborting"}
      /\ PeerReceive(p) \/ UNCHANGED vars
      /\ broker' = [broker EXCEPT ![p].warned = at[p] = "abandoning"]
      BY DEF AbortAnswered, ReceiveNothing
<1>3. PICK there : /\ there = IF at[p] = "abandoning" THEN "running"
                              ELSE "leaving"
                   /\ Go(p, there)
      BY DEF AbortAnswered
<1>4. /\ Speaks(p) /\ requests'[p] = requests[p]
      /\ link'[p] = link[p] /\ peer'[p] = peer[p]
      BY <1>1, <1>2, SilentConn, ReceiveConn DEF SameConn
<1> DEFINE client == [broker[p] EXCEPT !.warned = at[p] = "abandoning"]
<1>5. client \in BrokerClient /\ SameMapping(client, broker[p])
  <2>1. (at[p] = "abandoning") \in BOOLEAN
        OBVIOUS
  <2> QED BY <1>1, <2>1, ClientRecord
<1>6. broker' = [broker EXCEPT ![p] = client]
      BY <1>2
<1> HIDE DEF client
<1>7. Moves(p, there, client)
      BY <1>3, <1>4, <1>5, <1>6 DEF Places, Moves
<1> QED BY <1>2, <1>3, <1>4, <1>5, <1>7, LateKeeps

-----------------------------------------------------------------------------
(* Publication acknowledged, the lock, and the end of the process.         *)

(* The reply to READY: an acknowledgement means that the broker retains    *)
(* the memory, which is what it was sent for.                              *)
LEMMA PublishMove ==
    ASSUME SystemInv, NEW p \in Conns, ahe_broker_client_publish(p)
    PROVE  SystemInv'
<1>1. /\ ProcTypes /\ BrokerInv
      /\ RequestsOK(p) /\ MappedOK(p) /\ PlaceOK(p)
      BY DEF SystemInv, ServiceInv, ProcessOK
<1>2. /\ at[p] = "publishing" /\ PeerReceive(p)
      /\ built' = built /\ locks' = locks
      BY DEF ahe_broker_client_publish
<1>3. /\ Speaks(p) /\ replies[p] # <<>> /\ replies[p] \in Seq(Replies)
      /\ requests'[p] = requests[p]
      /\ link'[p] = link[p] /\ peer'[p] = peer[p]
      BY <1>1, <1>2, ReceiveConn
<1>4. CASE Head(replies[p]).type # "ACK"
  <2>1. Go(p, "abandon") /\ broker' = broker
        BY <1>4 DEF ahe_broker_client_publish
  <2>2. Moves(p, "abandon", broker[p])
        BY <1>1, <1>3, <2>1, MovesOnly DEF Places
  <2>3. SameMapping(broker[p], broker[p])
        BY DEF SameMapping
  <2> QED BY <1>2, <1>3, <2>2, <2>3, LateKeeps
<1>5. CASE Head(replies[p]).type = "ACK"
  <2> DEFINE client == [broker[p] EXCEPT !.ready = TRUE]
  <2>1. Go(p, "running") /\ broker' = [broker EXCEPT ![p] = client]
        BY <1>5 DEF ahe_broker_client_publish
  <2>2. /\ client \in BrokerClient
        /\ client.cache = broker[p].cache /\ client.lock = broker[p].lock
        /\ client.base = broker[p].base
        /\ client.cache_key = broker[p].cache_key
        /\ client.creator = broker[p].creator
        /\ client.reattached = broker[p].reattached
        BY <1>1 DEF ProcTypes, BrokerClient
  <2> HIDE DEF client
  <2>3. Moves(p, "running", client)
        BY <1>3, <2>1, <2>2 DEF Places, Moves
  <2>4. at'[p] = "running" /\ broker'[p] = client
        BY <1>1, <2>3, MovedTo
  <2>5. Still
        BY <1>1, <1>3, SpeaksLocal
  <2>6. Acknowledged(p)
    <3>1. Publishing(p)
          BY <1>1, <1>2 DEF PlaceOK
    <3>2. Len(replies[p]) = 1 /\ Head(replies[p]) = replies[p][1] =>
              (replies[p][1].type = "ACK" => Acknowledged(p))
          BY <1>3, <3>1 DEF Publishing, Quiet
    <3>3. Len(replies[p]) = 1
          BY <1>3, <3>1 DEF Publishing, Quiet
    <3>4. Head(replies[p]) = replies[p][1]
          BY <1>3
    <3> QED BY <1>5, <3>2, <3>3, <3>4
  <2>7. Acknowledged(p)'
        BY <2>2, <2>4, <2>5, <2>6, StillObjects DEF Acknowledged, Still
  <2>8. Record(p)' = Record(p)
        BY <2>2, <2>4 DEF Record
  <2>9. GrantsOf(p)' = GrantsOf(p) /\ granted' = granted
        BY <2>5, StillObjects DEF Still
  <2>10. broker[p].cache # 0 /\ Record(p) \in built
        BY <1>1, <1>2 DEF PlaceOK
  <2>11. MappedOK(p)'
        BY <1>1, <1>2, <2>2, <2>4, <2>7, <2>8, <2>9, <2>10 DEF MappedOK
  <2>12. RequestsOK(p)'
        BY <1>1, <1>2, <1>3, <2>2, <2>4, <2>5, RequestsKept
  <2>13. PlaceOK(p)'
        BY <1>2, <2>2, <2>4, <2>8, <2>10 DEF PlaceOK
  <2> QED BY <1>2, <1>3, <2>2, <2>3, <2>11, <2>12, <2>13, MoveKeeps
          DEF ProcessOK
<1> QED BY <1>4, <1>5

(* Processes with one memory have one lock.                                *)
LEMMA SameLock ==
    ASSUME SystemInv, NEW p \in Conns, NEW q \in Conns,
           broker[p].cache # 0, broker[p].cache = broker[q].cache
    PROVE  broker[p].lock = broker[q].lock
<1>1. MappedOK(p) /\ MappedOK(q) /\ GrantsAgree
      BY DEF SystemInv, ProcessOK, ServiceInv
<1>2. PICK g \in granted : broker[p].cache = g.cache /\ broker[p].lock = g.lock
      BY <1>1 DEF MappedOK
<1>3. broker[q].cache # 0
      OBVIOUS
<1>4. PICK h \in granted : broker[q].cache = h.cache /\ broker[q].lock = h.lock
      BY <1>1, <1>3 DEF MappedOK
<1>5. g.cache = h.cache
      BY <1>2, <1>4
<1>6. g.lock = h.lock
      BY <1>1, <1>5 DEF GrantsAgree
<1> QED BY <1>2, <1>4, <1>6

(* The lock is taken when nobody with that memory holds it.                *)
LEMMA LockMove ==
    ASSUME SystemInv, NEW p \in Conns, ahe_broker_client_lock(p)
    PROVE  SystemInv'
<1>1. /\ ProcTypes /\ BrokerInv /\ OneWriter
      /\ RequestsOK(p) /\ MappedOK(p) /\ PlaceOK(p)
      BY DEF SystemInv, ServiceInv, ProcessOK
<1>2. /\ at[p] = "running" /\ ~Excluded(p)
      /\ UNCHANGED vars /\ broker' = broker /\ built' = built
      /\ Go(p, "locked")
      BY DEF ahe_broker_client_lock
<1>3. Speaks(p) /\ SameConn(p)
      BY <1>2, SilentConn
<1>4. Moves(p, "locked", broker[p])
      BY <1>1, <1>2, <1>3, MovesOnly DEF Places
<1>5. /\ at'[p] = "locked" /\ broker'[p] = broker[p]
      /\ at' \in [Conns -> Places] /\ broker' \in [Conns -> BrokerClient]
      /\ \A q \in Conns : q # p => SameProc(q)
      BY <1>1, <1>4, MovedTo
<1>6. Still
      BY <1>1, <1>3, SpeaksLocal
<1>7. ProcTypes'
  <2>1. locks' \in [Conns -> 0 .. MaxLocks]
    <3>1. locks[p] \in 0 .. MaxLocks /\ MaxLocks \in Nat
          BY <1>1, SystemAssumption DEF ProcTypes
    <3>2. locks[p] < MaxLocks /\ locks' = [locks EXCEPT ![p] = @ + 1]
          BY DEF ahe_broker_client_lock
    <3>3. locks[p] + 1 \in 0 .. MaxLocks
          BY <3>1, <3>2
    <3> QED BY <1>1, <3>2, <3>3 DEF ProcTypes
  <2> QED BY <1>1, <1>2, <1>5, <2>1 DEF ProcTypes
<1>8. broker[p].cache # 0 /\ Record(p) \in built
      BY <1>1, <1>2 DEF PlaceOK
<1>9. OneWriter'
  <2>1. ASSUME NEW q \in Conns, q # p, at'[q] = "locked",
               broker'[q].cache = broker[p].cache
        PROVE  FALSE
    <3>1. at[q] = "locked" /\ broker[q].cache = broker[p].cache
          BY <1>5, <2>1 DEF SameProc
    <3>2. broker[q].lock = broker[p].lock
          BY <1>8, <3>1, SameLock
    <3> QED BY <1>2, <2>1, <3>1, <3>2 DEF Excluded
  <2>2. ASSUME NEW q \in Conns, NEW r \in Conns, q # p, r # p,
               at'[q] = "locked", at'[r] = "locked",
               broker'[q].cache = broker'[r].cache
        PROVE  q = r
        BY <1>1, <1>5, <2>2 DEF OneWriter, SameProc
  <2> QED BY <1>5, <2>1, <2>2 DEF OneWriter
<1>10. Record(p)' = Record(p)
      BY <1>5 DEF Record
<1>11. RequestsOK(p)'
      BY <1>1, <1>2, <1>3, <1>5, <1>6, RequestsKept DEF SameConn
<1>12. MappedOK(p)'
      BY <1>1, <1>2, <1>5, <1>6, MappedKept
<1>13. PlaceOK(p)'
      BY <1>2, <1>5, <1>8, <1>10 DEF PlaceOK
<1> QED BY <1>2, <1>3, <1>5, <1>7, <1>9, <1>11, <1>12, <1>13,
           ProcessStepKeeps DEF ProcessOK, SameConn

(* A record that names no memory.                                          *)
LEMMA UnmappedKeeps ==
    ASSUME SystemInv, NEW p \in Conns, NEW there, NEW client,
           Moves(p, there, client), client.cache = 0, client.base = 0,
           built' = built, locks' = locks,
           requests'[p] = requests[p], link'[p] = link[p],
           there \in {"failed", "detach", "fallback", "gone"},
           peer'[p] = "open" =>
               /\ peer[p] = "open"
               /\ client.cache_key = broker[p].cache_key
               /\ \/ requests[p] = <<>> \/ there = "failed"
                  \/ at[p] \notin {"acquiring", "failed"}
    PROVE  SystemInv'
<1>1. ProcTypes /\ BrokerInv /\ Speaks(p) /\ RequestsOK(p)
      BY DEF SystemInv, ServiceInv, Moves, ProcessOK
<1>2. at'[p] = there /\ broker'[p] = client
      BY <1>1, MovedTo
<1>3. Still
      BY <1>1, SpeaksLocal
<1>4. RequestsOK(p)'
      BY <1>1, <1>2, <1>3, RequestsKept
<1>5. MappedOK(p)'
      BY <1>2 DEF MappedOK
<1>6. PlaceOK(p)'
      BY <1>2 DEF PlaceOK
<1> QED BY <1>4, <1>5, <1>6, MoveKeeps DEF ProcessOK

(* The segment is unmapped.                                                *)
LEMMA DetachMove ==
    ASSUME SystemInv, NEW p \in Conns, ahe_broker_client_detach(p)
    PROVE  SystemInv'
<1>1. ProcTypes
      BY DEF SystemInv
<1> DEFINE client == [broker[p] EXCEPT !.cache = 0, !.base = 0]
<1>2. /\ at[p] = "running" /\ UNCHANGED vars
      /\ built' = built /\ locks' = locks /\ Go(p, "detach")
      /\ broker' = [broker EXCEPT ![p].cache = 0, ![p].base = 0]
      BY DEF ahe_broker_client_detach
<1>3. broker' = [broker EXCEPT ![p] = client]
      BY <1>1, <1>2 DEF ProcTypes, BrokerClient
<1>4. /\ client \in BrokerClient /\ client.cache = 0 /\ client.base = 0
      /\ client.cache_key = broker[p].cache_key
      BY <1>1 DEF ProcTypes, BrokerClient
<1> HIDE DEF client
<1>5. Speaks(p) /\ SameConn(p)
      BY <1>2, SilentConn
<1>6. Moves(p, "detach", client)
      BY <1>2, <1>3, <1>4, <1>5 DEF Moves, Places
<1> QED BY <1>2, <1>4, <1>5, <1>6, UnmappedKeeps DEF SameConn

(* The process leaves or dies, with or without its connection.             *)
LEMMA GoneMove ==
    ASSUME SystemInv, NEW p \in Conns, Gone(p)
    PROVE  SystemInv'
<1> DEFINE client == AHE_BROKER_CLIENT_INITIALIZER
<1>1. BrokerInv
      BY DEF SystemInv, ServiceInv
<1>2. /\ PeerClose(p) /\ built' = built /\ locks' = locks /\ Go(p, "gone")
      /\ broker' = [broker EXCEPT ![p] = client]
      BY DEF Gone
<1>3. client \in BrokerClient /\ client.cache = 0 /\ client.base = 0
      BY DEF AHE_BROKER_CLIENT_INITIALIZER, BrokerClient
<1> HIDE DEF client
<1>4. /\ Speaks(p) /\ peer'[p] # "open"
      /\ requests'[p] = requests[p] /\ link'[p] = link[p]
      BY <1>1, <1>2, CloseConn
<1>5. Moves(p, "gone", client)
      BY <1>2, <1>3, <1>4 DEF Moves, Places
<1> QED BY <1>2, <1>3, <1>4, <1>5, UnmappedKeeps

(* A process that gives up before it has anything.                         *)
LEMMA FallbackMoves ==
    ASSUME SystemInv, NEW p \in Conns,
           \/ AcquireGivesUp(p) \/ ahe_broker_client_close_descriptors(p)
           \/ ConnectFails(p)
    PROVE  SystemInv'
<1>1. /\ ProcTypes /\ BrokerInv /\ MappedOK(p) /\ PlaceOK(p)
      BY DEF SystemInv, ServiceInv, ProcessOK
<1>2. /\ broker' = broker /\ built' = built /\ locks' = locks
      /\ at[p] \in {"acquiring", "failed", "idle"}
      BY DEF AcquireGivesUp, ahe_broker_client_close_descriptors,
         ConnectFails
<1>3. broker[p].cache = 0 /\ broker[p].base = 0
      BY <1>1, <1>2 DEF PlaceOK, MappedOK
<1>4. CASE AcquireGivesUp(p)
  <2>1. Go(p, "failed") /\ (UNCHANGED vars \/ PeerReceive(p))
        BY <1>4 DEF AcquireGivesUp, ReceiveNothing
  <2>2. /\ Speaks(p) /\ requests'[p] = requests[p]
        /\ link'[p] = link[p] /\ peer'[p] = peer[p]
        BY <1>1, <2>1, SilentConn, ReceiveConn DEF SameConn
  <2>3. Moves(p, "failed", broker[p])
        BY <1>1, <1>2, <1>4, <2>2, MovesOnly DEF Places, AcquireGivesUp
  <2> QED BY <1>2, <1>3, <2>2, <2>3, UnmappedKeeps
<1>5. CASE ahe_broker_client_close_descriptors(p)
  <2>1. Go(p, "fallback") /\ PeerClose(p)
        BY <1>5 DEF ahe_broker_client_close_descriptors
  <2>2. /\ Speaks(p) /\ peer'[p] # "open"
        /\ requests'[p] = requests[p] /\ link'[p] = link[p]
        BY <1>1, <2>1, CloseConn
  <2>3. Moves(p, "fallback", broker[p])
        BY <1>1, <1>2, <2>1, <2>2, MovesOnly DEF Places
  <2> QED BY <1>2, <1>3, <2>2, <2>3, UnmappedKeeps
<1>6. CASE ConnectFails(p)
  <2>1. Go(p, "fallback") /\ UNCHANGED vars /\ at[p] = "idle"
        BY <1>6 DEF ConnectFails
  <2>2. Speaks(p) /\ SameConn(p)
        BY <2>1, SilentConn
  <2>3. Moves(p, "fallback", broker[p])
        BY <1>1, <1>2, <2>1, <2>2, MovesOnly DEF Places
  <2> QED BY <1>2, <1>3, <2>1, <2>2, <2>3, UnmappedKeeps DEF SameConn
<1> QED BY <1>4, <1>5, <1>6

-----------------------------------------------------------------------------
(* Connecting and asking.                                                  *)

(* A connection the broker never saw was never answered.                   *)
LEMMA NewConn ==
    ASSUME SystemInv, NEW p \in Conns, link[p] = "new"
    PROVE  Quiet(p) /\ GrantsOf(p) = {}
<1>1. RequestsOK(p) /\ QuotaInv
      BY DEF SystemInv, ProcessOK
<1>2. PICK H \in SUBSET Conns : HandledAre(H)
      BY <1>1 DEF QuotaInv
<1>3. p \notin H
      BY <1>2 DEF HandledAre, Known
<1> QED BY <1>1, <1>2, <1>3 DEF HandledAre, RequestsOK, Quiet, GrantsOf

(* A sequence of one.                                                      *)
LEMMA OnlyOne ==
    ASSUME NEW S, NEW s \in Seq(S), Len(s) = 1
    PROVE  Head(s) = s[1] /\ s[1] \in S /\ Tail(s) = <<>>
<1>1. s # <<>>
      OBVIOUS
<1>2. Tail(s) \in Seq(S) /\ Len(Tail(s)) = Len(s) - 1
      BY <1>1, HeadTailProperties
<1>3. \A t \in Seq(S) : Len(t) = Len(s) - 1 => t = <<>>
      BY EmptyDomain
<1>4. 1 \in 1 .. Len(s)
      OBVIOUS
<1>5. s[1] \in S
      BY <1>4
<1>6. Tail(s) = <<>>
      BY <1>2, <1>3, Zenon
<1> QED BY <1>1, <1>5, <1>6

(* connect() succeeds.                                                     *)
LEMMA ConnectMove ==
    ASSUME SystemInv, NEW p \in Conns, ahe_broker_connect(p)
    PROVE  SystemInv'
<1>1. /\ ProcTypes /\ BrokerInv
      /\ RequestsOK(p) /\ MappedOK(p) /\ PlaceOK(p)
      BY DEF SystemInv, ServiceInv, ProcessOK
<1>2. PICK there \in {"connected", "failed"} :
          /\ Go(p, there) /\ PeerConnect(p) /\ at[p] = "idle"
          /\ broker' = broker /\ built' = built /\ locks' = locks
      BY DEF ahe_broker_connect
<1>3. /\ Speaks(p) /\ link[p] = "new" /\ link'[p] = "backlog"
      /\ requests'[p] = requests[p] /\ replies'[p] = replies[p]
      /\ peer'[p] = peer[p]
      BY <1>1, <1>2, ConnectConn
<1>4. Moves(p, there, broker[p])
      BY <1>1, <1>2, <1>3, MovesOnly DEF Places
<1>5. at'[p] = there /\ broker'[p] = broker[p]
      BY <1>1, <1>4, MovedTo
<1>6. Quiet(p) /\ GrantsOf(p) = {}
      BY <1>3, NewConn
<1>7. Still
      BY <1>1, <1>3, SpeaksLocal
<1>8. Quiet(p)' /\ GrantsOf(p)' = {}
      BY <1>3, <1>6, <1>7, StillObjects DEF Quiet
<1>9. RequestsOK(p)'
  <2>1. 1 .. Len(requests'[p]) = {}
        BY <1>8 DEF Quiet
  <2> QED BY <1>8, <2>1 DEF RequestsOK, Quiet
<1>10. broker[p].cache = 0 /\ broker[p].base = 0 /\ ~broker[p].ready
      BY <1>1, <1>2 DEF PlaceOK, MappedOK
<1>11. MappedOK(p)'
      BY <1>5, <1>10 DEF MappedOK
<1>12. PlaceOK(p)'
      BY <1>5, <1>8, <1>10 DEF PlaceOK
<1> QED BY <1>2, <1>3, <1>4, <1>9, <1>11, <1>12, MoveKeeps DEF ProcessOK

(* ACQUIRE is sent, the first request of the process.                      *)
LEMMA AskMove ==
    ASSUME SystemInv, NEW p \in Conns, SendAcquire(p)
    PROVE  SystemInv'
<1>1. /\ ProcTypes /\ BrokerInv
      /\ RequestsOK(p) /\ MappedOK(p) /\ PlaceOK(p)
      BY DEF SystemInv, ServiceInv, ProcessOK
<1>2. at[p] = "connected" /\ built' = built /\ locks' = locks
      BY DEF SendAcquire
<1>3. /\ broker[p].cache = 0 /\ broker[p].base = 0 /\ ~broker[p].ready
      /\ Quiet(p) /\ GrantsOf(p) = {}
      BY <1>1, <1>2 DEF PlaceOK, MappedOK
<1>4. CASE SendFails(p) /\ Go(p, "failed") /\ broker' = broker
  <2>1. Speaks(p) /\ SameConn(p)
        BY <1>4, SilentConn DEF SendFails
  <2>2. Moves(p, "failed", broker[p])
        BY <1>1, <1>4, <2>1, MovesOnly DEF Places
  <2> QED BY <1>2, <1>3, <2>1, <2>2, UnmappedKeeps DEF SameConn
<1>5. ASSUME NEW k \in Keys, PeerSend(p, Acquire(k)), Go(p, "acquiring"),
             broker' = [broker EXCEPT ![p].cache_key = k]
      PROVE  SystemInv'
  <2> DEFINE client == [broker[p] EXCEPT !.cache_key = k]
  <2>1. broker' = [broker EXCEPT ![p] = client]
        BY <1>5
  <2>2. /\ client \in BrokerClient /\ client.cache_key = k
        /\ client.cache = 0 /\ client.base = 0 /\ ~client.ready
        BY <1>1, <1>3 DEF ProcTypes, BrokerClient
  <2> HIDE DEF client
  <2>3. /\ Speaks(p)
        /\ requests'[p] = Append(requests[p], Acquire(k))
        /\ replies'[p] = replies[p] /\ peer'[p] = peer[p]
        /\ link'[p] = link[p] /\ link[p] # "new"
        BY <1>1, <1>5, SendConn, SentRequests
  <2>4. Moves(p, "acquiring", client)
        BY <1>5, <2>1, <2>2, <2>3 DEF Moves, Places
  <2>5. at'[p] = "acquiring" /\ broker'[p] = client
        BY <1>1, <2>4, MovedTo
  <2>6. GrantsOf(p)' = {}
        BY <1>1, <1>3, <2>3, SpeaksLocal, StillObjects
  <2>7. /\ Len(requests'[p]) = 1 /\ requests'[p][1] = Acquire(k)
        /\ replies'[p] = <<>> /\ 1 .. Len(requests'[p]) = {1}
        BY <1>3, <2>3 DEF Quiet
  <2>8. Acquire(k).type = "ACQUIRE" /\ Acquire(k).cache_key = k
        BY SentRequests
  <2>9. RequestsOK(p)'
        BY <2>2, <2>3, <2>5, <2>6, <2>7, <2>8 DEF RequestsOK
  <2>10. MappedOK(p)'
        BY <2>2, <2>5 DEF MappedOK
  <2>11. Asking(p)'
        BY <2>2, <2>5, <2>6, <2>7, <2>8 DEF Asking
  <2>12. PlaceOK(p)'
        BY <2>2, <2>5, <2>11 DEF PlaceOK
  <2> QED BY <1>2, <1>3, <2>2, <2>3, <2>4, <2>9, <2>10, <2>12, MoveKeeps
          DEF ProcessOK
<1> QED BY <1>4, <1>5 DEF SendAcquire

(* The reply is mapped.                                                    *)
LEMMA AcquireMove ==
    ASSUME SystemInv, NEW p \in Conns, ahe_broker_client_acquire(p)
    PROVE  SystemInv'
<1>1. /\ ProcTypes /\ BrokerInv
      /\ RequestsOK(p) /\ MappedOK(p) /\ PlaceOK(p)
      BY DEF SystemInv, ServiceInv, ProcessOK
<1>2. /\ at[p] = "acquiring" /\ PeerReceive(p)
      /\ built' = built /\ locks' = locks
      BY DEF ahe_broker_client_acquire
<1>3. /\ Speaks(p) /\ replies[p] # <<>> /\ replies'[p] = Tail(replies[p])
      /\ replies[p] \in Seq(Replies)
      /\ requests'[p] = requests[p]
      /\ link'[p] = link[p] /\ peer'[p] = peer[p]
      BY <1>1, <1>2, ReceiveConn
<1>4. /\ broker[p].cache_key \in Keys /\ ~broker[p].ready
      /\ requests[p] = <<>> /\ Len(replies[p]) = 1
      /\ Answer(p, replies[p][1])
      BY <1>1, <1>2, <1>3 DEF PlaceOK, Asking, Quiet
<1>5. /\ Head(replies[p]) = replies[p][1] /\ replies[p][1] \in Replies
      /\ Tail(replies[p]) = <<>>
      BY <1>3, <1>4, OnlyOne
<1>6. PICK reply \in Replies : reply = replies[p][1]
      BY <1>5
<1>7. PICK address \in Addresses : Map(p, reply, address)
      BY <1>5, <1>6 DEF ahe_broker_client_acquire
<1> DEFINE client == [broker[p] EXCEPT
              !.cache = reply.cache, !.lock = reply.lock,
              !.base = address, !.creator = reply.type = "CREATE",
              !.reattached = reply.type = "ATTACH"]
<1>8. PICK there \in {"starting", "restoring"} :
          /\ there = IF reply.type = "CREATE" THEN "starting"
                                              ELSE "restoring"
          /\ Go(p, there)
      BY <1>7 DEF Map
<1>9. /\ reply.type \in {"CREATE", "ATTACH"} /\ reply.cache # 0
      /\ reply.type = "ATTACH" => reply.mapping_base = address
      /\ broker' = [broker EXCEPT ![p] = client]
      BY <1>7 DEF Map
<1>10. /\ client \in BrokerClient
       /\ client.cache = reply.cache /\ client.lock = reply.lock
       /\ client.base = address /\ client.cache_key = broker[p].cache_key
       /\ client.creator <=> reply.type = "CREATE"
       /\ client.reattached <=> reply.type = "ATTACH"
       /\ ~client.ready
  <2>1. /\ (reply.type = "CREATE") \in BOOLEAN
        /\ (reply.type = "ATTACH") \in BOOLEAN
        OBVIOUS
  <2>2. reply.cache \in Nat /\ reply.lock \in Nat
        BY DEF Replies
  <2>3. broker[p] \in BrokerClient
        BY <1>1 DEF ProcTypes
  <2> QED BY <1>4, <2>1, <2>2, <2>3 DEF BrokerClient
<1> HIDE DEF client
<1>11. Moves(p, there, client)
      BY <1>3, <1>8, <1>9, <1>10 DEF Moves, Places
<1>12. at'[p] = there /\ broker'[p] = client
      BY <1>1, <1>11, MovedTo
<1>13. Still
      BY <1>1, <1>3, SpeaksLocal
<1>14. GrantsOf(p)' = GrantsOf(p) /\ granted' = granted
      BY <1>13, StillObjects DEF Still
<1>15. PICK g \in granted :
            /\ GrantsOf(p) = {g}
            /\ reply.type = g.type
            /\ reply.cache = g.cache /\ reply.lock = g.lock
            /\ reply.mapping_base = g.mapping_base
            /\ g.type = "CREATE" => Unbuilt(g.cache)
            /\ g.type = "ATTACH" =>
                  Completed(g.cache, g.mapping_base, broker[p].cache_key)
                      \in built
      BY <1>4, <1>6, <1>9 DEF Answer
<1>16. Record(p)' = Completed(g.cache, address, broker[p].cache_key)
      BY <1>10, <1>12, <1>15 DEF Record
<1>17. g.type = "ATTACH" => Record(p)' \in built
      BY <1>9, <1>15, <1>16
<1>18. MappedOK(p)'
  <2>1. broker'[p].cache # 0
        BY <1>9, <1>10, <1>12
  <2>2. broker'[p].base \in Addresses /\ broker'[p].cache_key \in Keys
        BY <1>4, <1>10, <1>12
  <2>3. /\ GrantsOf(p)' = {g} /\ g \in granted'
        /\ broker'[p].cache = g.cache /\ broker'[p].lock = g.lock
        /\ broker'[p].creator <=> g.type = "CREATE"
        /\ broker'[p].reattached <=> g.type = "ATTACH"
        BY <1>10, <1>12, <1>14, <1>15
  <2>4. broker'[p].creator => \A b \in built' : b.mapping # broker'[p].cache
        BY <1>2, <1>15, <2>3 DEF Unbuilt
  <2>5. broker'[p].reattached => Record(p)' \in built'
        BY <1>2, <1>17, <2>3
  <2>6. ~broker'[p].ready
        BY <1>10, <1>12
  <2> QED BY <2>1, <2>2, <2>3, <2>4, <2>5, <2>6 DEF MappedOK
<1>19. RequestsOK(p)'
      BY <1>1, <1>2, <1>3, <1>4, <1>8, <1>10, <1>12, <1>13, RequestsKept
<1>20. PlaceOK(p)'
  <2>1. Quiet(p)' /\ broker'[p].cache # 0
        BY <1>3, <1>4, <1>5, <1>9, <1>10, <1>12 DEF Quiet
  <2>2. there = "starting" =>
            broker'[p].creator /\ Unbuilt(broker[p].cache)'
        BY <1>2, <1>8, <1>10, <1>12, <1>15 DEF Unbuilt
  <2>3. there = "restoring" => broker'[p].reattached
        BY <1>8, <1>9, <1>10, <1>12
  <2> QED BY <1>8, <1>12, <2>1, <2>2, <2>3 DEF PlaceOK
<1> QED BY <1>2, <1>3, <1>8, <1>10, <1>11, <1>18, <1>19, <1>20, MoveKeeps
        DEF ProcessOK

-----------------------------------------------------------------------------
(* The startup of a creator is complete.                                   *)

(* A process other than the creator keeps what it has.                     *)
LEMMA OtherBuilt ==
    ASSUME NEW q \in Conns, ProcessOK(q), Still, SameConn(q), SameProc(q),
           NEW r, built' = built \cup {r},
           \A g \in GrantsOf(q) : g.type = "CREATE" => g.cache # r.mapping
    PROVE  ProcessOK(q)'
<1>1. /\ CacheOf' = CacheOf /\ GrantsOf(q)' = GrantsOf(q)
      BY StillObjects
<1>2. pc' = pc /\ generation' = generation /\ granted' = granted
      BY DEF Still
<1>3. /\ broker'[q] = broker[q] /\ at'[q] = at[q]
      /\ requests'[q] = requests[q] /\ replies'[q] = replies[q]
      BY DEF SameConn, SameProc
<1>4. RequestsOK(q)'
      BY <1>1, <1>2 DEF ProcessOK, RequestsOK, SameConn, SameProc
<1>5. Acknowledged(q)' = Acknowledged(q)
      BY <1>1, <1>2 DEF Acknowledged, SameProc
<1>6. Record(q)' = Record(q)
      BY DEF Record, Completed, SameProc
<1>7. broker[q].cache # 0 /\ broker[q].creator => broker[q].cache # r.mapping
      BY DEF ProcessOK, MappedOK
<1>8. MappedOK(q)'
  <2>1. CASE broker[q].cache = 0
        BY <1>3, <2>1 DEF ProcessOK, MappedOK
  <2>2. CASE broker[q].cache # 0
    <3>1. broker[q].creator =>
              \A b \in built' : b.mapping = broker[q].cache => b = Record(q)
          BY <1>7, <2>2 DEF ProcessOK, MappedOK
    <3> QED BY <1>1, <1>2, <1>3, <1>5, <1>6, <2>2, <3>1
            DEF ProcessOK, MappedOK
  <2> QED BY <2>1, <2>2
<1>9. ASSUME NEW m, Unbuilt(m), m # r.mapping
      PROVE  \A b \in built' : b.mapping # m
      BY <1>9 DEF Unbuilt
<1>10. ASSUME NEW reply, Answer(q, reply)
       PROVE  reply.cache # 0 =>
        \E g \in granted :
            /\ GrantsOf(q) = {g}
            /\ reply.type = g.type
            /\ reply.cache = g.cache /\ reply.lock = g.lock
            /\ reply.mapping_base = g.mapping_base
            /\ g.type = "CREATE" => \A b \in built' : b.mapping # g.cache
            /\ g.type = "ATTACH" =>
                  Completed(g.cache, g.mapping_base, broker[q].cache_key)
                      \in built'
      BY <1>9, <1>10 DEF Answer
<1>11. at[q] = "acquiring" => Asking(q)'
  <2>1. SUFFICES ASSUME Asking(q) PROVE Asking(q)'
        BY DEF ProcessOK, PlaceOK
  <2>2. CASE replies[q] = <<>>
        BY <1>1, <1>3, <2>1, <2>2 DEF Asking, Quiet
  <2>3. CASE replies[q] # <<>>
    <3>1. /\ requests[q] = <<>> /\ Len(replies[q]) = 1
          /\ Answer(q, replies[q][1]) /\ broker[q].cache_key \in Keys
          BY <2>1, <2>3 DEF Asking, Quiet
    <3>2. PICK reply : reply = replies[q][1]
          OBVIOUS
    <3>3. Answer(q, reply)
          BY <3>1, <3>2
    <3>4. Answer(q, reply)'
      <4>1. CASE reply.cache = 0
            BY <4>1 DEF Answer
      <4>2. CASE reply.cache # 0
        <5>1. PICK g \in granted :
                  /\ GrantsOf(q) = {g}
                  /\ reply.type = g.type
                  /\ reply.cache = g.cache /\ reply.lock = g.lock
                  /\ reply.mapping_base = g.mapping_base
                  /\ g.type = "CREATE" =>
                        \A b \in built' : b.mapping # g.cache
                  /\ g.type = "ATTACH" =>
                        Completed(g.cache, g.mapping_base,
                                  broker[q].cache_key) \in built'
              BY <1>10, <3>3, <4>2
        <5> QED BY <1>1, <1>2, <1>3, <5>1 DEF Answer, Unbuilt
      <4> QED BY <4>1, <4>2
    <3>5. replies'[q][1] = reply
          BY <1>3, <3>2
    <3> QED BY <1>3, <3>1, <3>4, <3>5 DEF Asking
  <2> QED BY <2>2, <2>3
<1>12. at[q] = "publishing" => Publishing(q)'
      BY <1>3, <1>5 DEF ProcessOK, PlaceOK, Publishing, Quiet
<1>13. at[q] = "starting" => \A b \in built' : b.mapping # broker[q].cache
      BY <1>7, <1>9 DEF ProcessOK, PlaceOK
<1>14. PlaceOK(q)'
      BY <1>1, <1>3, <1>6, <1>11, <1>12, <1>13
         DEF ProcessOK, PlaceOK, Quiet, Unbuilt
<1> QED BY <1>4, <1>8, <1>14 DEF ProcessOK

(* Only one process was ever told to initialise a memory.                  *)
LEMMA CreatorAlone ==
    ASSUME SystemInv, NEW p \in Conns, NEW q \in Conns, q # p,
           broker[p].cache # 0, broker[p].creator
    PROVE  \A g \in GrantsOf(q) : g.type = "CREATE" =>
               g.cache # broker[p].cache
<1>1. MappedOK(p) /\ GrantsAgree
      BY DEF SystemInv, ProcessOK, ServiceInv
<1>2. PICK h \in granted : GrantsOf(p) = {h} /\ broker[p].cache = h.cache
                           /\ h.type = "CREATE"
      BY <1>1 DEF MappedOK
<1>3. h.conn = p
      BY <1>2 DEF GrantsOf
<1> SUFFICES ASSUME NEW g \in GrantsOf(q), g.type = "CREATE",
                    g.cache = h.cache
             PROVE  FALSE
    BY <1>2
<1>4. g \in granted /\ g.conn = q
      BY DEF GrantsOf
<1>5. g.conn = h.conn
      BY <1>1, <1>2, <1>4 DEF GrantsAgree
<1> QED BY <1>3, <1>4, <1>5

(* ahe_startup_complete: the memory is complete, and READY says so.        *)
LEMMA StartupMove ==
    ASSUME SystemInv, NEW p \in Conns, ahe_startup_complete(p)
    PROVE  SystemInv'
<1>1. /\ ServiceInv /\ QuotaInv /\ BrokerInv
      /\ ProcTypes /\ BuiltOK /\ OneWriter
      /\ RequestsOK(p) /\ MappedOK(p) /\ PlaceOK(p)
      BY DEF SystemInv, ServiceInv, ProcessOK
<1>2. /\ at[p] = "starting" /\ broker' = broker /\ locks' = locks
      /\ built' = built \cup {Record(p)}
      BY DEF ahe_startup_complete, Record, Completed
<1>3. /\ Quiet(p) /\ broker[p].cache # 0 /\ broker[p].creator
      /\ Unbuilt(broker[p].cache)
      BY <1>1, <1>2 DEF PlaceOK
<1>4. broker[p].base \in Addresses /\ broker[p].cache_key \in Keys
      BY <1>1, <1>3 DEF MappedOK
<1>5. PICK g \in granted :
          /\ GrantsOf(p) = {g} /\ broker[p].cache = g.cache
          /\ broker[p].lock = g.lock /\ g.type = "CREATE"
          /\ broker[p].reattached <=> g.type = "ATTACH"
      BY <1>1, <1>3 DEF MappedOK
<1> DEFINE r == Ready(broker[p].base)
<1>6. r \in Requests /\ r.type = "READY" /\ r.mapping_base = broker[p].base
      BY <1>4, SentRequests
<1> HIDE DEF r
<1>7. PICK there \in {"publishing", "abandon"} :
          /\ Go(p, there)
          /\ \/ there = "publishing" /\ PeerSend(p, r)
             \/ there = "abandon" /\ UNCHANGED vars
      BY DEF ahe_startup_complete, SendFails, r
<1>8. /\ Speaks(p) /\ link'[p] = link[p] /\ peer'[p] = peer[p]
      /\ replies'[p] = <<>>
      /\ \/ there = "abandon" /\ requests'[p] = requests[p]
         \/ /\ there = "publishing" /\ link[p] # "new" /\ peer[p] = "open"
            /\ requests'[p] = Append(requests[p], r)
            /\ requests[p] \in Seq(Requests)
  <2>1. CASE there = "publishing" /\ PeerSend(p, r)
        BY <1>1, <1>3, <1>6, <2>1, SendConn DEF Quiet, PeerSend
  <2>2. CASE there = "abandon" /\ UNCHANGED vars
        BY <1>3, <2>2, SilentConn DEF SameConn, Quiet
  <2> QED BY <1>7, <2>1, <2>2
<1>9. Moves(p, there, broker[p])
      BY <1>1, <1>2, <1>7, <1>8, MovesOnly DEF Places
<1>10. /\ at'[p] = there /\ broker'[p] = broker[p]
       /\ at' \in [Conns -> Places] /\ broker' \in [Conns -> BrokerClient]
       /\ \A q \in Conns : q # p => SameProc(q)
      BY <1>1, <1>9, MovedTo
<1>11. Still /\ [Next]_vars /\ \A q \in Conns : q # p => SameConn(q)
      BY <1>1, <1>8, SpeaksLocal
<1>12. ServiceInv' /\ QuotaInv'
      BY <1>1, <1>11, ServiceInvNext, QuotaNext
<1>13. /\ Record(p).mapping = broker[p].cache
       /\ Record(p) \in [mapping : Nat, base : Addresses, key : Keys]
       /\ Record(p)' = Record(p)
      BY <1>1, <1>4, <1>10 DEF Record, Completed, ProcTypes, BrokerClient
<1>14. ProcTypes'
      BY <1>1, <1>2, <1>10, <1>13 DEF ProcTypes
<1>15. OneWriter'
      BY <1>1, <1>7, <1>10, WriterKept
<1>16. \A q \in Conns : q # p => ProcessOK(q)'
  <2> SUFFICES ASSUME NEW q \in Conns, q # p PROVE ProcessOK(q)'
      OBVIOUS
  <2>1. \A h \in GrantsOf(q) : h.type = "CREATE" =>
            h.cache # Record(p).mapping
        BY <1>3, <1>13, CreatorAlone
  <2>2. ProcessOK(q) /\ SameConn(q) /\ SameProc(q)
        BY <1>10, <1>11 DEF SystemInv
  <2>3. PICK rec : rec = Record(p)
        OBVIOUS
  <2> QED BY <1>2, <1>11, <2>1, <2>2, <2>3, OtherBuilt
<1>17. /\ GrantsOf(p)' = {g} /\ granted' = granted
       /\ CacheOf' = CacheOf /\ OwnerOf' = OwnerOf
       /\ pc' = pc /\ generation' = generation
      BY <1>5, <1>11, StillObjects DEF Still
<1>18. RequestsOK(p)'
  <2>1. CASE there = "abandon"
        BY <1>1, <1>2, <1>3, <1>8, <1>10, <1>11, <2>1, RequestsKept
  <2>2. CASE there = "publishing"
    <3>1. \A h \in GrantsOf(p) : h.type = "CREATE" =>
              Completed(h.cache, r.mapping_base, broker[p].cache_key)
                  \in built'
          BY <1>2, <1>5, <1>6 DEF Record
    <3> QED BY <1>1, <1>2, <1>6, <1>8, <1>10, <1>11, <2>2, <3>1,
               RequestsSent
  <2> QED BY <2>1, <2>2
<1>19. MappedOK(p)'
  <2>1. \A b \in built' : b.mapping = broker[p].cache => b = Record(p)
        BY <1>2, <1>3 DEF Unbuilt
  <2>2. Acknowledged(p)' = Acknowledged(p)
        BY <1>10, <1>17 DEF Acknowledged
  <2> QED BY <1>1, <1>2, <1>3, <1>5, <1>10, <1>13, <1>17, <2>1, <2>2
          DEF MappedOK
<1>20. PlaceOK(p)'
  <2>1. broker'[p].cache # 0 /\ Record(p)' \in built'
        BY <1>2, <1>3, <1>10, <1>13
  <2>2. there = "publishing" => Publishing(p)'
    <3>1. requests[p] = <<>>
          BY <1>3 DEF Quiet
    <3>2. there = "publishing" => requests'[p] = Append(<<>>, r)
          BY <1>8, <3>1
    <3>3. Len(Append(<<>>, r)) = 1 /\ Append(<<>>, r)[1] = r
          OBVIOUS
    <3> QED BY <1>6, <1>8, <3>2, <3>3 DEF Publishing
  <2> QED BY <1>7, <1>10, <2>1, <2>2 DEF PlaceOK
<1>21. BuiltOK'
  <2>1. \A b, c \in built' : b.mapping = c.mapping => b = c
        BY <1>1, <1>2, <1>3, <1>13 DEF BuiltOK, Unbuilt
  <2>2. \A b \in built' : \E h \in granted' :
            h.type = "CREATE" /\ h.cache = b.mapping
        BY <1>1, <1>2, <1>5, <1>13, <1>17 DEF BuiltOK
  <2>3. generation'.state = "READY" =>
            Completed(CacheOf', generation'.mapping_base,
                      generation'.cache_key) \in built'
        BY <1>1, <1>2, <1>17 DEF BuiltOK
  <2>4. generation'.state = "INITIALIZING" /\ peer'[OwnerOf'] = "open" =>
            generation'.cache_key = broker'[OwnerOf'].cache_key
    <3>1. generation.state = "INITIALIZING" => OwnerOf \in Conns
          BY <1>1, OwnerGrant
    <3>2. \A q \in Conns : peer'[q] = peer[q]
          BY <1>8, <1>11 DEF SameConn
    <3> QED BY <1>1, <1>2, <1>17, <3>1, <3>2 DEF BuiltOK
  <2> QED BY <2>1, <2>2, <2>3, <2>4 DEF BuiltOK, Completed
<1> QED BY <1>12, <1>14, <1>15, <1>16, <1>18, <1>19, <1>20, <1>21
        DEF SystemInv, ProcessOK

-----------------------------------------------------------------------------
(* What a step of the broker is to the processes.                          *)

(* Requests are read in order, or lost with the connection.                *)
Taken(q) ==
    \/ requests'[q] \in {requests[q], <<>>}
    \/ requests[q] # <<>> /\ requests'[q] = Tail(requests[q])

(* The broker does not change the other ends.                              *)
EndsKept ==
    /\ peer' = peer
    /\ \A q \in Conns : link'[q] = "new" => link[q] = "new"

(* Nobody is answered.                                                     *)
Mute ==
    /\ EndsKept
    /\ replies' = replies
    /\ \A q \in Conns : Taken(q)

(* The oldest request of one process is answered.                          *)
Answers(c, reply) ==
    /\ EndsKept
    /\ peer[c] = "open" /\ requests[c] # <<>>
    /\ requests'[c] \in {Tail(requests[c]), <<>>}
    /\ replies'[c] = Append(replies[c], reply)
    /\ \A q \in Conns : q # c =>
          requests'[q] = requests[q] /\ replies'[q] = replies[q]

(* The steps of the broker, by what they tell the processes.               *)
SaysNothing == Mute /\ (Same \/ Discarded \/ Stopped)

SaysPlain(c, reply) ==
    /\ Answers(c, reply) /\ (Same \/ Discarded)
    /\ reply.cache = NoId
    /\ reply.type = "ACK" => Head(requests[c]).type # "READY"

SaysPublished(c, reply) ==
    /\ Answers(c, reply) /\ PublishedNow
    /\ reply.cache = NoId
    /\ Head(requests[c]).type = "READY" /\ OwnerOf = c
    /\ generation'.mapping_base = Head(requests[c]).mapping_base
    /\ generation'.cache_key = generation.cache_key

Carries(reply, g) ==
    /\ reply.type = g.type
    /\ reply.cache = g.cache /\ reply.lock = g.lock
    /\ reply.mapping_base = g.mapping_base

SaysCreate(c, reply) ==
    /\ Answers(c, reply) /\ CreatedFor(c)
    /\ Carries(reply, Delivered(c, "CREATE")')
    /\ Head(requests[c]).type = "ACQUIRE"
    /\ generation'.cache_key = Head(requests[c]).cache_key

SaysAttach(c, reply) ==
    /\ Answers(c, reply) /\ AttachedFor(c)
    /\ Carries(reply, Delivered(c, "ATTACH"))
    /\ Head(requests[c]).type = "ACQUIRE"
    /\ generation.cache_key = Head(requests[c]).cache_key

(* The creator asks again, which no process does.                          *)
SaysAgain(c) ==
    /\ peer[c] = "open" /\ requests[c] # <<>>
    /\ Head(requests[c]).type = "ACQUIRE"
    /\ generation.state = "INITIALIZING" /\ OwnerOf = c

BrokerSays ==
    \/ SaysNothing
    \/ \E c \in Conns : \E reply :
          \/ SaysPlain(c, reply) \/ SaysPublished(c, reply)
          \/ SaysCreate(c, reply) \/ SaysAttach(c, reply) \/ SaysAgain(c)

(* The loop, its end, and clients that are closed unheard.                 *)
LEMMA LoopSays ==
    ASSUME ServiceInv,
           \/ LoopStops \/ LoopContinues \/ LoopClosesListener \/ TrimClient
           \/ TrimDone \/ Setup \/ SetupFails \/ Poll \/ SkipAccept
           \/ ahe_broker_add_client \/ RejectForeign \/ AcceptFails
           \/ Shutdown \/ Kill \/ ahe_broker_handle_signal
           \/ SkipClient \/ RefuseClient \/ ReceiveFails
    PROVE  SaysNothing
<1>1. BrokerInv /\ requests \in [Conns -> Seq(Requests)] /\ link \in Links
      BY ConnTypes DEF ServiceInv
<1>2. Same \/ Discarded \/ Stopped
      BY <1>1, OuterSteps, PlainTurns
<1>3. CASE \/ LoopStops \/ LoopContinues \/ TrimDone \/ Setup \/ SetupFails
           \/ Poll \/ SkipAccept \/ AcceptFails \/ SkipClient
           \/ ahe_broker_handle_signal
  <2>1. UNCHANGED <<peer, replies, requests, link>>
        BY <1>3 DEF LoopStops, LoopContinues, TrimDone, Setup, SetupFails,
           Poll, SkipAccept, AcceptFails, SkipClient, NextIteration,
           ahe_broker_handle_signal, kernelVars, NextClient, NoMessage
  <2> QED BY <1>2, <2>1 DEF SaysNothing, Mute, EndsKept, Taken
<1>4. CASE LoopClosesListener
  <2>1. /\ peer' = peer /\ replies' = replies
        /\ link' = [c \in Conns |-> IF link[c] = "backlog" THEN "dropped"
                                                           ELSE link[c]]
        /\ requests' = [c \in Conns |-> IF link[c] = "backlog" THEN <<>>
                                                          ELSE requests[c]]
        BY <1>4 DEF LoopClosesListener, CloseListener
  <2>2. \A q \in Conns : link'[q] = "new" => link[q] = "new"
        BY <2>1
  <2>3. \A q \in Conns : requests'[q] \in {requests[q], <<>>}
        BY <2>1
  <2> QED BY <1>2, <2>1, <2>2, <2>3 DEF SaysNothing, Mute, EndsKept, Taken
<1>5. CASE Shutdown \/ Kill
  <2>1. /\ peer' = peer /\ replies' = replies
        /\ link' = [c \in Conns |-> IF link[c] = "new" THEN "new"
                                                       ELSE "dropped"]
        /\ requests' = [c \in Conns |-> <<>>]
        BY <1>5 DEF Shutdown, Kill, Disconnect
  <2>2. \A q \in Conns : link'[q] = "new" => link[q] = "new"
        BY <2>1
  <2>3. \A q \in Conns : requests'[q] \in {requests[q], <<>>}
        BY <2>1
  <2> QED BY <1>2, <2>1, <2>2, <2>3 DEF SaysNothing, Mute, EndsKept, Taken
<1>6. CASE ahe_broker_add_client
  <2>1. /\ UNCHANGED <<peer, replies, requests>>
        /\ link' = [link EXCEPT ![Head(backlog)] = "served"]
        BY <1>6 DEF ahe_broker_add_client, NextIteration
  <2>2. \A q \in Conns : link'[q] = "new" => link[q] = "new"
        BY <1>1, <2>1 DEF Links
  <2> QED BY <1>2, <2>1, <2>2 DEF SaysNothing, Mute, EndsKept, Taken
<1>7. CASE RejectForeign \/ TrimClient \/ RefuseClient \/ ReceiveFails
  <2>1. /\ UNCHANGED <<peer, replies>>
        /\ UNCHANGED <<link, requests>> \/ \E c : Drop(c)
        BY <1>7 DEF RejectForeign, NextIteration, TrimClient, RefuseClient,
           ReceiveFails, NextClient, NoMessage, ahe_broker_close_client
  <2>2. \A q \in Conns : /\ link'[q] = "new" => link[q] = "new"
                         /\ requests'[q] \in {requests[q], <<>>}
        BY <1>1, <2>1 DEF Links, Drop
  <2> QED BY <1>2, <2>1, <2>2 DEF SaysNothing, Mute, EndsKept, Taken
<1> QED BY <1>3, <1>4, <1>5, <1>6, <1>7

(* A turn in which a message is handled answers its sender, or nobody.     *)
LEMMA TurnSays ==
    ASSUME BrokerInv, NEW type, NEW reply, NEW gen, NEW table, NEW keep,
           ahe_broker_receive_message(type), ahe_broker_send_message(reply),
           Finish(gen, table, keep), NEW c, c = Conn(client_index)
    PROVE  /\ c \in Conns
           /\ Head(requests[c]) = Received /\ Received.type = type
           /\ requests[c] # <<>>
           /\ requests'[c] \in {Tail(requests[c]), <<>>}
           /\ CanSend => Answers(c, reply)
           /\ ~CanSend => Mute
<1>1. /\ requests \in [Conns -> Seq(Requests)] /\ link \in Links
      /\ replies \in [Conns -> Seq(Replies)]
      BY ConnTypes
<1>2. Serving
      BY DEF ahe_broker_receive_message
<1>3. c \in Conns
      BY <1>2, ServingClient
<1>4. /\ requests[c] # <<>> /\ Head(requests[c]) = Received
      /\ Received.type = type
      BY DEF ahe_broker_receive_message, HasMessage, Received
<1>5. peer' = peer
      BY DEF Finish, NextClient
<1>6. /\ \A q \in Conns : link'[q] = "new" => link[q] = "new"
      /\ requests'[c] \in {Tail(requests[c]), <<>>}
      /\ \A q \in Conns : q # c => requests'[q] = requests[q]
  <2>1. CASE /\ link' = link
             /\ requests' = [requests EXCEPT ![c] = Tail(@)]
        BY <1>1, <1>3, <2>1
  <2>2. CASE Drop(c)
        BY <1>1, <1>3, <2>2 DEF Drop, Links
  <2> QED BY <2>1, <2>2 DEF Finish, ahe_broker_close_client
<1>7. CASE CanSend
  <2>1. peer[c] = "open" /\ replies' = [replies EXCEPT ![c] = Append(@, reply)]
        BY <1>7 DEF CanSend, ahe_broker_send_message
  <2>2. /\ replies'[c] = Append(replies[c], reply)
        /\ \A q \in Conns : q # c => replies'[q] = replies[q]
        BY <1>1, <1>3, <2>1
  <2> QED BY <1>3, <1>4, <1>5, <1>6, <1>7, <2>1, <2>2 DEF Answers, EndsKept
<1>8. CASE ~CanSend
  <2>1. replies' = replies
        BY <1>8 DEF ahe_broker_send_message
  <2>2. \A q \in Conns : Taken(q)
        BY <1>4, <1>6 DEF Taken
  <2> QED BY <1>3, <1>4, <1>5, <1>6, <1>8, <2>1, <2>2 DEF Mute, EndsKept
<1> QED BY <1>3, <1>4, <1>6, <1>7, <1>8

(* Replies without descriptors.                                            *)
LEMMA PlainReply ==
    ASSUME NEW type
    PROVE  /\ ahe_broker_message_init(type).cache = 0
           /\ ahe_broker_message_init(type).type = type
BY DEF ahe_broker_message_init

(* A refusal, or an acknowledgement of ABORT and DETACH.                   *)
LEMMA RefusalSays ==
    ASSUME ServiceInv,
           \/ AcquireFails \/ AcquireDeclined \/ HandleAbort
           \/ HandleDetach \/ HandleOther
    PROVE  BrokerSays
<1>1. BrokerInv /\ (Same \/ Discarded)
      BY PlainTurns, AbortTurn DEF ServiceInv
<1>2. PICK type, said, gen, table, keep :
          /\ ahe_broker_receive_message(type)
          /\ ahe_broker_send_message(ahe_broker_message_init(said))
          /\ Finish(gen, table, keep)
          /\ said = "ACK" => type # "READY"
  <2>1. CASE AcquireFails \/ AcquireDeclined
    <3>1. PICK said \in {"ERROR", "DECLINE"} : Reply(said, CanSend)
          BY <1>1, <2>1, AcquireFailsPlainly DEF AcquireDeclined
    <3>2. ahe_broker_receive_message("ACQUIRE")
          BY <2>1 DEF AcquireFails, AcquireDeclined
    <3> QED BY <3>1, <3>2 DEF Reply
  <2>2. CASE HandleDetach
    <3>1. ahe_broker_receive_message("DETACH") /\ \E k : Reply("ACK", k)
          BY <2>2 DEF HandleDetach
    <3> QED BY <3>1 DEF Reply
  <2>3. CASE HandleOther
    <3>1. ahe_broker_receive_message("OTHER") /\ \E k : Reply("ERROR", k)
          BY <2>3 DEF HandleOther
    <3> QED BY <3>1 DEF Reply
  <2>4. CASE HandleAbort
        BY <2>4 DEF HandleAbort
  <2> QED BY <2>1, <2>2, <2>3, <2>4
<1>3. PICK reply : reply = ahe_broker_message_init(said)
      OBVIOUS
<1>4. reply.cache = 0 /\ reply.type = said
      BY <1>3, PlainReply
<1>5. PICK c : c = Conn(client_index)
      OBVIOUS
<1>6. /\ c \in Conns
      /\ Head(requests[c]) = Received /\ Received.type = type
      /\ CanSend => Answers(c, reply)
      /\ ~CanSend => Mute
      BY <1>1, <1>2, <1>3, <1>5, TurnSays
<1>7. CASE CanSend
      BY <1>1, <1>2, <1>4, <1>6, <1>7 DEF BrokerSays, SaysPlain
<1>8. CASE ~CanSend
      BY <1>1, <1>6, <1>8 DEF BrokerSays, SaysNothing
<1> QED BY <1>7, <1>8

(* READY.                                                                  *)
LEMMA ReadySays ==
    ASSUME ServiceInv, ahe_broker_handle_ready
    PROVE  BrokerSays
<1>1. BrokerInv
      BY DEF ServiceInv
<1>2. PICK said, gen :
          /\ ahe_broker_receive_message("READY")
          /\ ahe_broker_send_message(ahe_broker_message_init(said))
          /\ Finish(gen, fd_table, CanSend)
          /\ said = "ACK" => ReadyAccepted
      BY DEF ahe_broker_handle_ready, Reply
<1>3. PICK reply : reply = ahe_broker_message_init(said)
      OBVIOUS
<1>4. reply.cache = 0 /\ reply.type = said
      BY <1>3, PlainReply
<1>5. PICK c : c = Conn(client_index)
      OBVIOUS
<1>6. /\ c \in Conns
      /\ Head(requests[c]) = Received /\ Received.type = "READY"
      /\ CanSend => Answers(c, reply)
      /\ ~CanSend => Mute
      BY <1>1, <1>2, <1>3, <1>5, TurnSays
<1>7. CASE ~CanSend
  <2>1. Same \/ Discarded
        BY <1>7, ReadyTurn
  <2> QED BY <1>6, <1>7, <2>1 DEF BrokerSays, SaysNothing
<1>8. CASE CanSend /\ ~ReadyAccepted
  <2>1. Same \/ Discarded
        BY <1>8, ReadyTurn
  <2> QED BY <1>2, <1>4, <1>6, <1>8, <2>1 DEF BrokerSays, SaysPlain
<1>9. CASE CanSend /\ ReadyAccepted
  <2>1. PublishedNow /\ generation' = Published
        BY <1>9, ReadyTurn
  <2>2. generation \in Generations
        BY <1>1 DEF BrokerInv, Owned, GenerationOK
  <2>3. /\ generation'.mapping_base = Received.mapping_base
        /\ generation'.cache_key = generation.cache_key
        BY <2>1, <2>2 DEF Published, Generations
  <2>4. OwnerOf = c
    <3>1. ClientFd \in Fd /\ generation.creator_fd = ClientFd
          BY <1>1, <1>2, <1>9, ServingClient
             DEF ReadyAccepted, IsCreator, ahe_broker_receive_message
    <3>2. generation.creator_fd # -1
          BY <3>1 DEF Fd
    <3> QED BY <1>5, <3>1, <3>2 DEF OwnerOf, ClientFd, Conn
  <2> QED BY <1>4, <1>6, <1>9, <2>1, <2>3, <2>4 DEF BrokerSays, SaysPublished
<1> QED BY <1>7, <1>8, <1>9

-----------------------------------------------------------------------------
(* The answers that carry descriptors.                                     *)

(* ACQUIRE of an empty generation.                                         *)
LEMMA CreateSays ==
    ASSUME ServiceInv, AcquireCreates
    PROVE  BrokerSays
<1>1. /\ BrokerInv /\ EventsTrue /\ ahe_broker_receive_message("ACQUIRE")
      /\ Serving
      BY DEF ServiceInv, AcquireCreates, ahe_broker_receive_message
<1>2. PICK cache_fd \in Fd, lock_fd \in Fd, table \in [Fd -> Objects] :
          LET gen == ahe_generation_create(cache_fd, lock_fd)
          IN  /\ cache_fd # lock_fd
              /\ fd_table[cache_fd] = Closed
              /\ fd_table[lock_fd] = Closed
              /\ \A f \in Fd : table[f] =
                    IF f = cache_fd THEN Memfd(memfds + 1)
                    ELSE IF f = lock_fd THEN Memfd(memfds + 2)
                    ELSE fd_table[f]
              /\ ahe_broker_send_message(Descriptors(gen, table))
              /\ Finish(gen, table, CanSend)
      BY <1>1, Allocated
<1>3. PICK gen : gen = ahe_generation_create(cache_fd, lock_fd)
      OBVIOUS
<1>4. /\ gen.state = "INITIALIZING"
      /\ gen.cache_fd = cache_fd /\ gen.lock_fd = lock_fd
      /\ gen.mapping_base = 0
      /\ table[cache_fd].id = memfds + 1 /\ table[lock_fd].id = memfds + 2
      BY <1>1, <1>2, <1>3, CreatedOK
<1>5. PICK reply : reply = Descriptors(gen, table)
      OBVIOUS
<1>6. /\ ahe_broker_send_message(reply) /\ Finish(gen, table, CanSend)
      BY <1>2, <1>3, <1>5
<1>7. PICK c \in Conns : c = Conn(client_index)
      BY <1>1, ServingClient
<1>8. /\ Head(requests[c]) = Received /\ Received.type = "ACQUIRE"
      /\ CanSend => Answers(c, reply)
      /\ ~CanSend => Mute
      BY <1>1, <1>6, <1>7, TurnSays
<1>9. CASE ~CanSend
  <2>1. Discarded
        BY <1>9, CreateTurn
  <2> QED BY <1>8, <1>9, <2>1 DEF BrokerSays, SaysNothing
<1>10. CASE CanSend
  <2>1. CreatedFor(c) /\ generation'.cache_key = Received.cache_key
        BY <1>7, <1>10, CreateTurn
  <2>2. /\ CacheOf' = memfds + 1 /\ LockOf' = memfds + 2
        /\ generation'.mapping_base = 0
        BY <2>1 DEF CreatedFor, Objective
  <2>3. Carries(reply, Delivered(c, "CREATE")')
        BY <1>4, <1>5, <2>2 DEF Carries, Delivered, Descriptors
  <2> QED BY <1>8, <1>10, <2>1, <2>3 DEF BrokerSays, SaysCreate
<1> QED BY <1>9, <1>10

(* ACQUIRE of a generation that matches.                                   *)
LEMMA GrantSays ==
    ASSUME ServiceInv, AcquireGranted
    PROVE  BrokerSays
<1>1. /\ BrokerInv /\ ahe_broker_receive_message("ACQUIRE") /\ Serving
      /\ generation.state # "EMPTY"
      /\ ahe_broker_send_message(Descriptors(generation, fd_table))
      /\ Finish(generation, fd_table, CanSend)
      BY DEF ServiceInv, AcquireGranted, ahe_broker_receive_message
<1>2. PICK reply : reply = Descriptors(generation, fd_table)
      OBVIOUS
<1>3. PICK c \in Conns : c = Conn(client_index)
      BY <1>1, ServingClient
<1>4. /\ Head(requests[c]) = Received /\ Received.type = "ACQUIRE"
      /\ CanSend => Answers(c, reply)
      /\ ~CanSend => Mute
      BY <1>1, <1>2, <1>3, TurnSays
<1>5. CASE ~CanSend
  <2>1. Same \/ Discarded
        BY <1>5, GrantTurn
  <2> QED BY <1>4, <1>5, <2>1 DEF BrokerSays, SaysNothing
<1>6. CASE CanSend
  <2>1. /\ Received.cache_key = generation.cache_key
        /\ \/ AttachedFor(c)
           \/ generation.state = "INITIALIZING" /\ OwnerOf = c
        BY <1>3, <1>6, GrantTurn DEF ahe_generation_matches
  <2>2. CASE AttachedFor(c)
    <3>1. generation.state = "READY"
          BY <2>2 DEF AttachedFor
    <3>2. generation.cache_fd # -1 /\ generation.lock_fd # -1
          BY <1>1 DEF BrokerInv, Owned, GenerationOK
    <3>3. Carries(reply, Delivered(c, "ATTACH"))
          BY <1>2, <3>1, <3>2
             DEF Carries, Delivered, Descriptors, CacheOf, LockOf
    <3> QED BY <1>4, <1>6, <2>1, <2>2, <3>3 DEF BrokerSays, SaysAttach
  <2>3. CASE generation.state = "INITIALIZING" /\ OwnerOf = c
    <3>1. peer[c] = "open" /\ requests[c] # <<>>
          BY <1>4, <1>6 DEF Answers
    <3> QED BY <1>4, <2>3, <3>1 DEF BrokerSays, SaysAgain
  <2> QED BY <2>1, <2>2, <2>3
<1> QED BY <1>5, <1>6

(* Every step of the broker.                                               *)
LEMMA StepSays ==
    ASSUME ServiceInv, BrokerStep \/ ahe_broker_handle_signal \/ Kill
    PROVE  BrokerSays
<1>1. CASE \/ LoopStops \/ LoopContinues \/ LoopClosesListener \/ TrimClient
           \/ TrimDone \/ Setup \/ SetupFails \/ Poll \/ SkipAccept
           \/ ahe_broker_add_client \/ RejectForeign \/ AcceptFails
           \/ Shutdown \/ Kill \/ ahe_broker_handle_signal
           \/ SkipClient \/ RefuseClient \/ ReceiveFails
      BY <1>1, LoopSays DEF BrokerSays
<1>2. CASE \/ AcquireFails \/ AcquireDeclined \/ HandleAbort
           \/ HandleDetach \/ HandleOther
      BY <1>2, RefusalSays
<1>3. CASE ahe_broker_handle_ready
      BY <1>3, ReadySays
<1>4. CASE AcquireCreates \/ AcquireGranted
      BY <1>4, CreateSays, GrantSays
<1> QED BY <1>1, <1>2, <1>3, <1>4
        DEF BrokerStep, ahe_broker_handle_client_message,
            ahe_broker_handle_acquire

-----------------------------------------------------------------------------
(* What the processes keep when the broker steps.                          *)

(* The processes stand still.                                              *)
Waits == UNCHANGED procVars

(* What was acknowledged stays so.                                         *)
LEMMA AcknowledgedKept ==
    ASSUME NEW q \in Conns, Acknowledged(q), ServiceStep, Waits
    PROVE  Acknowledged(q)'
<1>1. broker' = broker
      BY DEF Waits, procVars
<1>2. CASE Same
      BY <1>1, <1>2 DEF Same, Objective, Acknowledged
<1>3. CASE Discarded \/ PublishedNow \/ Stopped
      BY <1>3 DEF Discarded, PublishedNow, Stopped, Acknowledged
<1>4. ASSUME NEW c \in Conns, CreatedFor(c) PROVE Acknowledged(q)'
      BY <1>4 DEF CreatedFor, Acknowledged
<1>5. ASSUME NEW c \in Conns, AttachedFor(c) PROVE Acknowledged(q)'
      BY <1>1, <1>5 DEF AttachedFor, Objective, Acknowledged
<1> QED BY <1>2, <1>3, <1>4, <1>5 DEF ServiceStep

(* What is left of the requests is in order.                               *)
LEMMA RequestsLeft ==
    ASSUME NEW q \in Conns, RequestsOK(q), Waits, Taken(q),
           requests[q] \in Seq(Requests),
           peer'[q] = peer[q], link'[q] = "new" => link[q] = "new",
           GrantsOf(q)' = GrantsOf(q) \/ requests'[q] = <<>>
    PROVE  RequestsOK(q)'
<1>1. at' = at /\ broker' = broker /\ built' = built
      BY DEF Waits, procVars
<1>2. CASE requests'[q] = <<>>
  <2>1. 1 .. Len(requests'[q]) = {}
        BY <1>2
  <2> QED BY <1>2, <2>1 DEF RequestsOK
<1>3. CASE requests'[q] = requests[q] /\ GrantsOf(q)' = GrantsOf(q)
      BY <1>1, <1>3 DEF RequestsOK
<1>4. CASE /\ requests[q] # <<>> /\ requests'[q] = Tail(requests[q])
           /\ GrantsOf(q)' = GrantsOf(q)
  <2>1. /\ Len(requests'[q]) = Len(requests[q]) - 1
        /\ Len(requests[q]) \in Nat
        /\ \A i \in 1 .. Len(requests'[q]) :
              requests'[q][i] = requests[q][i + 1]
        BY <1>4, HeadTailProperties
  <2>2. \A i \in 1 .. Len(requests'[q]) :
            i + 1 \in 1 .. Len(requests[q]) /\ i + 1 # 1
        BY <2>1
  <2>3. \A i \in 1 .. Len(requests'[q]) : requests'[q][i].type # "ACQUIRE"
        BY <2>1, <2>2 DEF RequestsOK
  <2>4. peer[q] = "open" => \A i \in 1 .. Len(requests'[q]) :
            requests'[q][i].type = "READY" =>
                \A g \in GrantsOf(q) : g.type = "CREATE" =>
                    Completed(g.cache, requests'[q][i].mapping_base,
                              broker[q].cache_key) \in built
        BY <2>1, <2>2 DEF RequestsOK
  <2>5. link[q] # "new"
        BY <1>4 DEF RequestsOK
  <2> QED BY <1>1, <1>4, <2>3, <2>4, <2>5 DEF RequestsOK
<1> QED BY <1>2, <1>3, <1>4 DEF Taken

(* What is mapped does not depend on what the broker does.                 *)
LEMMA MappedStays ==
    ASSUME NEW q \in Conns, MappedOK(q), Waits, ServiceStep,
           GrantsOf(q)' = GrantsOf(q), granted \subseteq granted'
    PROVE  MappedOK(q)'
<1>1. at' = at /\ broker' = broker /\ built' = built
      BY DEF Waits, procVars
<1>2. Acknowledged(q) => Acknowledged(q)'
      BY AcknowledgedKept
<1>3. Record(q)' = Record(q)
      BY <1>1 DEF Record
<1> QED BY <1>1, <1>2, <1>3 DEF MappedOK

(* One who is not answered.                                                *)
LEMMA BystanderKeeps ==
    ASSUME NEW q \in Conns, ProcessOK(q), Waits, ServiceStep, Taken(q),
           requests[q] \in Seq(Requests), replies'[q] = replies[q],
           peer'[q] = peer[q], link'[q] = "new" => link[q] = "new",
           GrantsOf(q)' = GrantsOf(q), granted \subseteq granted'
    PROVE  ProcessOK(q)'
<1>1. at' = at /\ broker' = broker /\ built' = built
      BY DEF Waits, procVars
<1>2. RequestsOK(q)' /\ MappedOK(q)'
      BY RequestsLeft, MappedStays DEF ProcessOK
<1>3. Record(q)' = Record(q)
      BY <1>1 DEF Record
<1>4. Acknowledged(q) => Acknowledged(q)'
      BY AcknowledgedKept
<1>5. requests[q] = <<>> => requests'[q] = <<>>
      BY DEF Taken
<1>6. Len(requests[q]) = 1 =>
          requests'[q] = requests[q] \/ requests'[q] = <<>>
  <2>1. Len(requests[q]) = 1 => Tail(requests[q]) = <<>>
        BY OnlyOne
  <2> QED BY <2>1 DEF Taken
<1>7. Quiet(q) => Quiet(q)'
      BY <1>5 DEF Quiet
<1>8. at[q] = "acquiring" => Asking(q)'
  <2> SUFFICES ASSUME Asking(q) PROVE Asking(q)'
      BY DEF ProcessOK, PlaceOK
  <2>1. CASE /\ Len(requests[q]) = 1 /\ requests[q][1].type = "ACQUIRE"
             /\ replies[q] = <<>> /\ GrantsOf(q) = {}
        BY <1>1, <1>6, <2>1 DEF Asking, Quiet
  <2>2. CASE Quiet(q) /\ GrantsOf(q) = {}
        BY <1>1, <1>7, <2>2 DEF Asking
  <2>3. CASE /\ requests[q] = <<>> /\ Len(replies[q]) = 1
             /\ Answer(q, replies[q][1])
    <3>1. PICK reply : reply = replies[q][1]
          OBVIOUS
    <3>2. Answer(q, reply)'
          BY <1>1, <2>3, <3>1 DEF Answer, Unbuilt
    <3> QED BY <1>1, <1>5, <2>3, <3>1, <3>2 DEF Asking
  <2> QED BY <2>1, <2>2, <2>3 DEF Asking
<1>9. at[q] = "publishing" => Publishing(q)'
  <2> SUFFICES ASSUME Publishing(q) PROVE Publishing(q)'
      BY DEF ProcessOK, PlaceOK
  <2>1. CASE /\ Len(requests[q]) = 1 /\ requests[q][1].type = "READY"
             /\ replies[q] = <<>>
        BY <1>6, <2>1 DEF Publishing, Quiet
  <2>2. CASE Quiet(q)
        BY <1>7, <2>2 DEF Publishing
  <2>3. CASE /\ requests[q] = <<>> /\ Len(replies[q]) = 1
             /\ replies[q][1].type = "ACK" => Acknowledged(q)
        BY <1>4, <1>5, <2>3 DEF Publishing
  <2> QED BY <2>1, <2>2, <2>3 DEF Publishing
<1>10. PlaceOK(q)'
      BY <1>1, <1>3, <1>7, <1>8, <1>9 DEF ProcessOK, PlaceOK, Unbuilt
<1> QED BY <1>2, <1>10 DEF ProcessOK

(* One who is answered had asked.                                          *)
LEMMA AnsweredPlace ==
    ASSUME NEW c \in Conns, NEW reply, ProcessOK(c), Answers(c, reply),
           requests[c] \in Seq(Requests)
    PROVE  /\ at[c] \notin {"connected", "starting", "restoring"}
           /\ at[c] \in {"acquiring", "publishing"} =>
                /\ replies[c] = <<>>
                /\ requests'[c] = <<>>
                /\ Len(replies'[c]) = 1 /\ replies'[c][1] = reply
           /\ at[c] = "acquiring" =>
                /\ broker[c].cache_key \in Keys
                /\ GrantsOf(c) = {} /\ Head(requests[c]).type = "ACQUIRE"
           /\ at[c] = "publishing" => Head(requests[c]).type = "READY"
<1>1. /\ requests[c] # <<>> /\ requests'[c] \in {Tail(requests[c]), <<>>}
      /\ replies'[c] = Append(replies[c], reply)
      BY DEF Answers
<1>2. at[c] \notin {"connected", "starting", "restoring"}
      BY <1>1 DEF ProcessOK, PlaceOK, Quiet
<1>3. at[c] = "acquiring" =>
          /\ Len(requests[c]) = 1 /\ requests[c][1].type = "ACQUIRE"
          /\ replies[c] = <<>> /\ GrantsOf(c) = {}
          /\ broker[c].cache_key \in Keys
      BY <1>1 DEF ProcessOK, PlaceOK, Asking, Quiet
<1>4. at[c] = "publishing" =>
          /\ Len(requests[c]) = 1 /\ requests[c][1].type = "READY"
          /\ replies[c] = <<>>
      BY <1>1 DEF ProcessOK, PlaceOK, Publishing, Quiet
<1>5. Len(requests[c]) = 1 =>
          Tail(requests[c]) = <<>> /\ Head(requests[c]) = requests[c][1]
      BY OnlyOne
<1>6. Len(Append(<<>>, reply)) = 1 /\ Append(<<>>, reply)[1] = reply
      OBVIOUS
<1> QED BY <1>1, <1>2, <1>3, <1>4, <1>5, <1>6

(* One who is answered without descriptors.                                *)
LEMMA PlainKeeps ==
    ASSUME NEW c \in Conns, NEW reply, ProcessOK(c), Waits, ServiceStep,
           Answers(c, reply), requests[c] \in Seq(Requests),
           reply.cache = 0,
           at[c] = "publishing" /\ reply.type = "ACK" => Acknowledged(c)',
           granted' = granted
    PROVE  ProcessOK(c)'
<1>1. at' = at /\ broker' = broker /\ built' = built
      BY DEF Waits, procVars
<1>2. GrantsOf(c)' = GrantsOf(c)
      BY DEF GrantsOf
<1>3. Taken(c) /\ peer'[c] = peer[c] /\ (link'[c] = "new" => link[c] = "new")
      BY DEF Answers, EndsKept, Taken
<1>4. RequestsOK(c)' /\ MappedOK(c)'
      BY <1>2, <1>3, RequestsLeft, MappedStays DEF ProcessOK
<1>5. Record(c)' = Record(c)
      BY <1>1 DEF Record
<1>6. Answer(c, reply)'
      BY DEF Answer
<1>7. at[c] = "acquiring" => Asking(c)'
      BY <1>1, <1>6, AnsweredPlace DEF Asking
<1>8. at[c] = "publishing" => Publishing(c)'
      BY AnsweredPlace DEF Publishing
<1>9. at[c] \notin {"connected", "starting", "restoring"}
      BY AnsweredPlace
<1>10. PlaceOK(c)'
      BY <1>1, <1>5, <1>7, <1>8, <1>9 DEF ProcessOK, PlaceOK
<1> QED BY <1>4, <1>10 DEF ProcessOK

(* One who is granted descriptors.                                         *)
LEMMA GrantKeeps ==
    ASSUME NEW c \in Conns, NEW reply, NEW g, ProcessOK(c), Waits,
           Answers(c, reply), requests[c] \in Seq(Requests),
           Head(requests[c]).type = "ACQUIRE",
           Carries(reply, g), g.conn = c, granted' = granted \cup {g},
           g.type = "CREATE" => Unbuilt(g.cache),
           g.type = "ATTACH" =>
               Completed(g.cache, g.mapping_base, broker[c].cache_key)
                   \in built
    PROVE  ProcessOK(c)'
<1>1. at' = at /\ broker' = broker /\ built' = built
      BY DEF Waits, procVars
<1>2. /\ peer[c] = "open" /\ peer'[c] = peer[c] /\ requests[c] # <<>>
      /\ link'[c] = "new" => link[c] = "new"
      /\ requests'[c] \in {Tail(requests[c]), <<>>}
      BY DEF Answers, EndsKept
<1>3. /\ 1 \in 1 .. Len(requests[c]) /\ requests[c][1] = Head(requests[c])
      BY <1>2
<1>4. /\ Len(requests[c]) = 1 /\ GrantsOf(c) = {}
      /\ at[c] \in {"acquiring", "failed"}
      BY <1>2, <1>3 DEF ProcessOK, RequestsOK
<1>5. requests'[c] = <<>>
      BY <1>2, <1>4, OnlyOne
<1>6. RequestsOK(c)'
      BY <1>2, <1>5, RequestsLeft DEF Taken, ProcessOK
<1>7. broker[c].cache = 0 /\ broker[c].base = 0
      BY <1>4 DEF ProcessOK, PlaceOK, MappedOK
<1>8. MappedOK(c)'
      BY <1>1, <1>7 DEF MappedOK
<1>9. GrantsOf(c)' = {g} /\ g \in granted'
      BY <1>4 DEF GrantsOf
<1>10. Answer(c, reply)'
      BY <1>1, <1>9 DEF Answer, Carries, Unbuilt
<1>11. at[c] = "acquiring" => Asking(c)'
      BY <1>1, <1>10, AnsweredPlace DEF Asking
<1>12. PlaceOK(c)'
      BY <1>1, <1>4, <1>7, <1>11 DEF ProcessOK, PlaceOK
<1> QED BY <1>6, <1>8, <1>12 DEF ProcessOK

-----------------------------------------------------------------------------
(* The invariant after a step of the broker.                               *)

(* The parts that are proved for each kind of step, put together.          *)
LEMMA BrokerStepKeeps ==
    ASSUME SystemInv, [Next]_vars, Waits, BuiltOK',
           \A q \in Conns : ProcessOK(q)'
    PROVE  SystemInv'
<1>1. ServiceInv' /\ QuotaInv'
      BY ServiceInvNext, QuotaNext DEF SystemInv, ServiceInv
<1>2. ProcTypes' /\ OneWriter'
      BY DEF SystemInv, Waits, procVars, ProcTypes, OneWriter
<1> QED BY <1>1, <1>2 DEF SystemInv

(* The record of completed memory when the generation is kept or dropped.  *)
LEMMA BuiltStays ==
    ASSUME ServiceInv, BuiltOK, Waits, peer' = peer,
           Same \/ Discarded \/ Stopped
    PROVE  BuiltOK'
<1>1. broker' = broker /\ built' = built /\ granted' = granted
      BY DEF Waits, procVars, Same, Discarded, Stopped
<1>2. CASE Same
      BY <1>1, <1>2 DEF Same, Objective, BuiltOK, Completed
<1>3. CASE Discarded \/ Stopped
  <2>1. generation'.state = "EMPTY"
        BY <1>3 DEF Discarded, Stopped, ahe_generation_init
  <2> QED BY <1>1, <2>1 DEF BuiltOK
<1> QED BY <1>2, <1>3

(* Nobody is answered.                                                     *)
LEMMA NothingKeeps ==
    ASSUME SystemInv, [Next]_vars, Waits, SaysNothing
    PROVE  SystemInv'
<1>1. ServiceInv /\ BrokerInv /\ BuiltOK
      BY DEF SystemInv, ServiceInv
<1>2. /\ requests \in [Conns -> Seq(Requests)]
      /\ peer' = peer /\ replies' = replies /\ granted' = granted
      /\ Same \/ Discarded \/ Stopped
      BY <1>1, ConnTypes
         DEF SaysNothing, Mute, EndsKept, Same, Discarded, Stopped
<1>3. ServiceStep
      BY <1>2 DEF ServiceStep
<1>4. \A q \in Conns : ProcessOK(q)'
  <2> SUFFICES ASSUME NEW q \in Conns PROVE ProcessOK(q)'
      OBVIOUS
  <2>1. /\ ProcessOK(q) /\ requests[q] \in Seq(Requests)
        /\ replies'[q] = replies[q] /\ peer'[q] = peer[q]
        BY <1>2 DEF SystemInv
  <2>2. Taken(q) /\ (link'[q] = "new" => link[q] = "new")
        BY DEF SaysNothing, Mute, EndsKept
  <2>3. GrantsOf(q)' = GrantsOf(q) /\ granted \subseteq granted'
        BY <1>2 DEF GrantsOf
  <2> QED BY <1>3, <2>1, <2>2, <2>3, BystanderKeeps
<1>5. BuiltOK'
      BY <1>1, <1>2, BuiltStays
<1> QED BY <1>4, <1>5, BrokerStepKeeps

(* Those who are not answered, when another is.                            *)
LEMMA OthersKeep ==
    ASSUME SystemInv, Waits, ServiceStep, NEW c \in Conns, NEW reply,
           Answers(c, reply), granted \subseteq granted',
           \A g \in granted' : g \in granted \/ g.conn = c
    PROVE  \A q \in Conns : q # c => ProcessOK(q)'
<1> SUFFICES ASSUME NEW q \in Conns, q # c PROVE ProcessOK(q)'
    OBVIOUS
<1>1. BrokerInv /\ ProcessOK(q)
      BY DEF SystemInv, ServiceInv
<1>2. requests[q] \in Seq(Requests)
      BY <1>1, ConnTypes
<1>3. /\ replies'[q] = replies[q] /\ peer'[q] = peer[q] /\ Taken(q)
      /\ link'[q] = "new" => link[q] = "new"
      BY DEF Answers, EndsKept, Taken
<1>4. GrantsOf(q)' = GrantsOf(q) /\ granted \subseteq granted'
      BY DEF GrantsOf
<1> QED BY <1>1, <1>2, <1>3, <1>4, BystanderKeeps

(* A refusal, or an acknowledgement of ABORT and DETACH.                   *)
LEMMA PlainSaidKeeps ==
    ASSUME SystemInv, [Next]_vars, Waits, NEW c \in Conns, NEW reply,
           SaysPlain(c, reply)
    PROVE  SystemInv'
<1>1. ServiceInv /\ BrokerInv /\ BuiltOK /\ ProcessOK(c)
      BY DEF SystemInv, ServiceInv
<1>2. /\ requests \in [Conns -> Seq(Requests)] /\ Answers(c, reply)
      /\ peer' = peer /\ granted' = granted
      /\ Same \/ Discarded
      /\ reply.cache = 0
      /\ reply.type = "ACK" => Head(requests[c]).type # "READY"
      BY <1>1, ConnTypes
         DEF SaysPlain, Answers, EndsKept, Same, Discarded
<1>3. ServiceStep
      BY <1>2 DEF ServiceStep
<1>4. ProcessOK(c)'
  <2>1. requests[c] \in Seq(Requests)
        BY <1>2
  <2>2. ~(at[c] = "publishing" /\ reply.type = "ACK")
        BY <1>1, <1>2, <2>1, AnsweredPlace
  <2> QED BY <1>1, <1>2, <1>3, <2>1, <2>2, PlainKeeps
<1>5. \A q \in Conns : q # c => ProcessOK(q)'
  <2>1. granted \subseteq granted' /\ \A g \in granted' : g \in granted
        BY <1>2
  <2> QED BY <1>2, <1>3, <2>1, OthersKeep
<1>6. BuiltOK'
      BY <1>1, <1>2, BuiltStays
<1> QED BY <1>4, <1>5, <1>6, BrokerStepKeeps

(* The generation is published: READY came from a process that completed   *)
(* that memory, at that address and for that key.                          *)
LEMMA PublishedKeeps ==
    ASSUME SystemInv, [Next]_vars, Waits, NEW c \in Conns, NEW reply,
           SaysPublished(c, reply)
    PROVE  SystemInv'
<1>1. ServiceInv /\ BrokerInv /\ BuiltOK /\ ProcessOK(c)
      BY DEF SystemInv, ServiceInv
<1>2. /\ requests \in [Conns -> Seq(Requests)] /\ Answers(c, reply)
      /\ PublishedNow /\ reply.cache = 0
      /\ Head(requests[c]).type = "READY" /\ OwnerOf = c
      /\ generation'.mapping_base = Head(requests[c]).mapping_base
      /\ generation'.cache_key = generation.cache_key
      BY <1>1, ConnTypes DEF SaysPublished
<1>3. ServiceStep
      BY <1>2 DEF ServiceStep
<1>4. /\ generation.state = "INITIALIZING" /\ generation'.state = "READY"
      /\ CacheOf' = CacheOf /\ granted' = granted
      BY <1>2 DEF PublishedNow, Objective
<1>5. broker' = broker /\ built' = built /\ at' = at
      BY DEF Waits, procVars
<1>6. /\ peer[c] = "open" /\ peer' = peer /\ requests[c] # <<>>
      BY <1>2 DEF Answers, EndsKept
<1>7. PICK h \in GrantsOf(c) : h.type = "CREATE" /\ h.cache = CacheOf
      BY <1>1, <1>2, <1>4, OwnerGrant
<1> DEFINE address == generation'.mapping_base
           done == Completed(CacheOf, address, broker[c].cache_key)
<1>8. done \in built
  <2>1. requests[c] \in Seq(Requests)
        BY <1>2
  <2>2. 1 \in 1 .. Len(requests[c]) /\ requests[c][1] = Head(requests[c])
        BY <1>6, <2>1
  <2>3. Completed(h.cache, requests[c][1].mapping_base, broker[c].cache_key)
            \in built
        BY <1>1, <1>2, <1>6, <1>7, <2>2 DEF ProcessOK, RequestsOK
  <2> QED BY <1>2, <1>7, <2>2, <2>3
<1>9. generation.cache_key = broker[c].cache_key
      BY <1>1, <1>2, <1>4, <1>6 DEF BuiltOK
<1>10. BuiltOK'
  <2>1. Completed(CacheOf', generation'.mapping_base, generation'.cache_key)
            \in built'
        BY <1>2, <1>4, <1>5, <1>8, <1>9
  <2> QED BY <1>1, <1>4, <1>5, <2>1 DEF BuiltOK, Completed
<1>11. at[c] = "publishing" => Acknowledged(c)'
  <2> SUFFICES ASSUME at[c] = "publishing" PROVE Acknowledged(c)'
      OBVIOUS
  <2>1. broker[c].cache # 0 /\ Record(c) \in built
        BY <1>1 DEF ProcessOK, PlaceOK
  <2>2. broker[c].cache = CacheOf
        BY <1>1, <1>7, <2>1 DEF ProcessOK, MappedOK
  <2>3. Record(c).mapping = CacheOf /\ done.mapping = CacheOf
        BY <2>2 DEF Record, Completed
  <2>4. Record(c) = done
        BY <1>1, <1>8, <2>1, <2>3 DEF BuiltOK
  <2>5. broker[c].base = address
        BY <2>4 DEF Record, Completed
  <2> QED BY <1>4, <1>5, <2>2, <2>5 DEF Acknowledged
<1>12. ProcessOK(c)'
  <2>1. requests[c] \in Seq(Requests)
        BY <1>2
  <2> QED BY <1>1, <1>2, <1>3, <1>4, <1>11, <2>1, PlainKeeps
<1>13. \A q \in Conns : q # c => ProcessOK(q)'
  <2>1. granted \subseteq granted' /\ \A g \in granted' : g \in granted
        BY <1>4
  <2> QED BY <1>2, <1>3, <2>1, OthersKeep
<1> QED BY <1>10, <1>12, <1>13, BrokerStepKeeps

(* The only request that is granted is a first one.                        *)
LEMMA FirstAsked ==
    ASSUME SystemInv, NEW c \in Conns, peer[c] = "open",
           requests[c] # <<>>, Head(requests[c]).type = "ACQUIRE"
    PROVE  /\ GrantsOf(c) = {}
           /\ Head(requests[c]).cache_key = broker[c].cache_key
<1>1. BrokerInv /\ RequestsOK(c)
      BY DEF SystemInv, ServiceInv, ProcessOK
<1>2. requests[c] \in Seq(Requests)
      BY <1>1, ConnTypes
<1>3. 1 \in 1 .. Len(requests[c]) /\ requests[c][1] = Head(requests[c])
      BY <1>2
<1> QED BY <1>1, <1>3 DEF RequestsOK

(* New memory for one process.                                             *)
LEMMA CreatedKeeps ==
    ASSUME SystemInv, [Next]_vars, Waits, NEW c \in Conns, NEW reply,
           SaysCreate(c, reply)
    PROVE  SystemInv'
<1>1. ServiceInv /\ BrokerInv /\ BuiltOK /\ ProcessOK(c) /\ GrantsOK
      BY DEF SystemInv, ServiceInv
<1>2. /\ requests \in [Conns -> Seq(Requests)] /\ Answers(c, reply)
      /\ CreatedFor(c) /\ Head(requests[c]).type = "ACQUIRE"
      /\ generation'.cache_key = Head(requests[c]).cache_key
      BY <1>1, ConnTypes DEF SaysCreate
<1>3. PICK g : g = Delivered(c, "CREATE")'
      OBVIOUS
<1>4. Carries(reply, g)
      BY <1>3 DEF SaysCreate
<1>5. ServiceStep
      BY <1>2 DEF ServiceStep
<1>6. /\ generation'.state = "INITIALIZING"
      /\ CacheOf' = memfds + 1 /\ OwnerOf' = c
      /\ granted' = granted \cup {g}
      BY <1>2, <1>3 DEF CreatedFor, Objective
<1>7. g.conn = c /\ g.type = "CREATE" /\ g.cache = memfds + 1
      BY <1>3, <1>6 DEF Delivered
<1>8. broker' = broker /\ built' = built
      BY DEF Waits, procVars
<1>9. Unbuilt(g.cache)
  <2>1. memfds \in Nat
        BY <1>1 DEF BrokerInv, RestOK
  <2>2. \A b \in built : b.mapping \in 1 .. memfds
        BY <1>1 DEF BuiltOK, GrantsOK
  <2> QED BY <1>7, <2>1, <2>2 DEF Unbuilt
<1>10. ProcessOK(c)'
  <2>1. requests[c] \in Seq(Requests)
        BY <1>2
  <2> QED BY <1>1, <1>2, <1>4, <1>6, <1>7, <1>9, <2>1, GrantKeeps
<1>11. \A q \in Conns : q # c => ProcessOK(q)'
  <2>1. /\ granted \subseteq granted'
        /\ \A h \in granted' : h \in granted \/ h.conn = c
        BY <1>6, <1>7
  <2> QED BY <1>2, <1>5, <2>1, OthersKeep
<1>12. generation'.cache_key = broker[c].cache_key
  <2>1. peer[c] = "open" /\ requests[c] # <<>>
        BY <1>2 DEF Answers
  <2> QED BY <1>2, <2>1, FirstAsked
<1>13. BuiltOK'
      BY <1>1, <1>6, <1>8, <1>12 DEF BuiltOK
<1> QED BY <1>10, <1>11, <1>13, BrokerStepKeeps

(* Published memory for one more process, whose key is its own.            *)
LEMMA AttachedKeeps ==
    ASSUME SystemInv, [Next]_vars, Waits, NEW c \in Conns, NEW reply,
           SaysAttach(c, reply)
    PROVE  SystemInv'
<1>1. ServiceInv /\ BrokerInv /\ BuiltOK /\ ProcessOK(c)
      BY DEF SystemInv, ServiceInv
<1>2. /\ requests \in [Conns -> Seq(Requests)] /\ Answers(c, reply)
      /\ AttachedFor(c) /\ Head(requests[c]).type = "ACQUIRE"
      /\ generation.cache_key = Head(requests[c]).cache_key
      BY <1>1, ConnTypes DEF SaysAttach
<1>3. PICK g : g = Delivered(c, "ATTACH")
      OBVIOUS
<1>4. Carries(reply, g)
      BY <1>3 DEF SaysAttach
<1>5. ServiceStep
      BY <1>2 DEF ServiceStep
<1>6. /\ generation.state = "READY" /\ generation' = generation
      /\ CacheOf' = CacheOf
      /\ granted' = granted \cup {g}
      BY <1>2, <1>3 DEF AttachedFor, Objective
<1>7. /\ g.conn = c /\ g.type = "ATTACH" /\ g.cache = CacheOf
      /\ g.mapping_base = generation.mapping_base
      BY <1>3 DEF Delivered
<1>8. broker' = broker /\ built' = built
      BY DEF Waits, procVars
<1>9. generation.cache_key = broker[c].cache_key
  <2>1. peer[c] = "open" /\ requests[c] # <<>>
        BY <1>2 DEF Answers
  <2> QED BY <1>2, <2>1, FirstAsked
<1>10. Completed(g.cache, g.mapping_base, broker[c].cache_key) \in built
      BY <1>1, <1>6, <1>7, <1>9 DEF BuiltOK
<1>11. ProcessOK(c)'
  <2>1. requests[c] \in Seq(Requests)
        BY <1>2
  <2> QED BY <1>1, <1>2, <1>4, <1>6, <1>7, <1>10, <2>1, GrantKeeps
<1>12. \A q \in Conns : q # c => ProcessOK(q)'
  <2>1. /\ granted \subseteq granted'
        /\ \A h \in granted' : h \in granted \/ h.conn = c
        BY <1>6, <1>7
  <2> QED BY <1>2, <1>5, <2>1, OthersKeep
<1>13. BuiltOK'
      BY <1>1, <1>6, <1>8 DEF BuiltOK, Completed
<1> QED BY <1>11, <1>12, <1>13, BrokerStepKeeps

(* Every step of the broker.                                               *)
LEMMA BrokerMove ==
    ASSUME SystemInv, Waits, BrokerStep \/ ahe_broker_handle_signal \/ Kill
    PROVE  SystemInv'
<1>1. ServiceInv /\ BrokerInv /\ [Next]_vars
      BY DEF SystemInv, ServiceInv, Next
<1>2. BrokerSays
      BY <1>1, StepSays
<1>3. ASSUME NEW c \in Conns, SaysAgain(c)
      PROVE  FALSE
  <2>1. GrantsOf(c) # {}
        BY <1>1, <1>3, OwnerGrant DEF SaysAgain
  <2> QED BY <1>3, <2>1, FirstAsked DEF SaysAgain
<1> QED BY <1>1, <1>2, <1>3, NothingKeeps, PlainSaidKeeps, PublishedKeeps,
           CreatedKeeps, AttachedKeeps DEF BrokerSays

-----------------------------------------------------------------------------
(* The invariant of the system.                                            *)

(* It holds before the first step.                                         *)
LEMMA SystemInitially == SystemInit => SystemInv
<1> SUFFICES ASSUME SystemInit PROVE SystemInv
    OBVIOUS
<1>1. ServiceInv /\ QuotaInv
      BY ServiceInit, QuotaInit DEF SystemInit
<1>2. /\ granted = {} /\ generation.state = "EMPTY"
      /\ \A p \in Conns : Quiet(p)
      BY DEF SystemInit, Init, ahe_generation_init, Quiet
<1>3. /\ built = {} /\ \A p \in Conns : at[p] = "idle"
      /\ \A p \in Conns :
            broker[p].cache = 0 /\ broker[p].base = 0 /\ ~broker[p].ready
      BY DEF SystemInit, AHE_BROKER_CLIENT_INITIALIZER
<1>4. ProcTypes
  <2>1. AHE_BROKER_CLIENT_INITIALIZER \in BrokerClient
        BY DEF AHE_BROKER_CLIENT_INITIALIZER, BrokerClient
  <2>2. 0 \in 0 .. MaxLocks
        BY SystemAssumption
  <2> QED BY <2>1, <2>2 DEF SystemInit, ProcTypes, Places
<1>5. \A p \in Conns : ProcessOK(p)
  <2> SUFFICES ASSUME NEW p \in Conns PROVE ProcessOK(p)
      OBVIOUS
  <2>1. requests[p] = <<>> /\ 1 .. Len(requests[p]) = {}
        BY <1>2 DEF Quiet
  <2> QED BY <1>2, <1>3, <2>1 DEF ProcessOK, RequestsOK, MappedOK, PlaceOK
<1>6. BuiltOK
      BY <1>2, <1>3 DEF BuiltOK
<1>7. OneWriter
      BY <1>3 DEF OneWriter
<1> QED BY <1>1, <1>4, <1>5, <1>6, <1>7 DEF SystemInv

(* A step in which nothing happens.                                        *)
LEMMA SystemStutters ==
    ASSUME SystemInv, UNCHANGED systemVars
    PROVE  SystemInv'
<1>1. UNCHANGED vars /\ UNCHANGED <<at, broker, locks, built>>
      BY DEF systemVars, procVars
<1>2. [Next]_vars
      BY <1>1
<1>3. ServiceInv' /\ QuotaInv'
      BY <1>2, ServiceInvNext, QuotaNext DEF SystemInv, ServiceInv
<1>4. Still
      BY <1>1 DEF vars, Still
<1>5. \A q \in Conns : SameConn(q) /\ SameProc(q)
      BY <1>1 DEF vars, SameConn, SameProc
<1>6. \A q \in Conns : ProcessOK(q)'
      BY <1>1, <1>4, <1>5, OtherProcess DEF SystemInv
<1>7. BuiltOK'
      BY <1>1, <1>4, StillObjects
         DEF SystemInv, BuiltOK, Completed, Still, vars
<1>8. ProcTypes' /\ OneWriter'
      BY <1>1 DEF SystemInv, ProcTypes, OneWriter
<1> QED BY <1>3, <1>6, <1>7, <1>8 DEF SystemInv

(* And after every step.                                                   *)
LEMMA SystemStep ==
    ASSUME SystemInv, [SystemNext]_systemVars
    PROVE  SystemInv'
<1>1. CASE /\ BrokerStep \/ ahe_broker_handle_signal \/ Kill
           /\ UNCHANGED procVars
      BY <1>1, BrokerMove DEF Waits
<1>2. ASSUME NEW p \in Conns, ahe_broker_connect(p) \/ ConnectFails(p)
      PROVE  SystemInv'
      BY <1>2, ConnectMove, FallbackMoves
<1>3. ASSUME NEW p \in Conns, ProcessStep(p)
      PROVE  SystemInv'
  <2>1. CASE \/ SendAcquire(p) \/ ahe_broker_client_acquire(p)
             \/ AcquireGivesUp(p) \/ ahe_broker_client_close_descriptors(p)
        BY <2>1, AskMove, AcquireMove, FallbackMoves
  <2>2. CASE ahe_startup_complete(p) \/ ahe_broker_client_publish(p)
        BY <2>2, StartupMove, PublishMove
  <2>3. CASE \/ PublishGivesUp(p) \/ Restore(p) \/ StartupFails(p)
             \/ ahe_broker_client_unlock(p) \/ DetachAnswered(p)
        BY <2>3, PlainMoves
  <2>4. CASE ahe_broker_client_abort(p) \/ AbortAnswered(p)
        BY <2>4, AbortMove, AbortedMove
  <2>5. CASE \/ ahe_broker_client_lock(p) \/ ahe_broker_client_detach(p)
             \/ ahe_broker_client_shutdown(p) \/ Leave(p)
        BY <2>5, LockMove, DetachMove, ShutdownMove, GoneMove DEF Leave
  <2> QED BY <1>3, <2>1, <2>2, <2>3, <2>4, <2>5 DEF ProcessStep
<1>4. ASSUME NEW p \in Conns, Crash(p)
      PROVE  SystemInv'
      BY <1>4, GoneMove DEF Crash
<1>5. CASE UNCHANGED systemVars
      BY <1>5, SystemStutters
<1> QED BY <1>1, <1>2, <1>3, <1>4, <1>5 DEF SystemNext

(* The inductive invariant of the whole system holds in every reachable    *)
(* state, for any number of processes and whatever fails.                  *)
THEOREM SystemInvariant == SystemSpec => []SystemInv
<1>1. SystemInit => SystemInv
      BY SystemInitially
<1>2. SystemInv /\ [SystemNext]_systemVars => SystemInv'
      BY SystemStep
<1> QED BY <1>1, <1>2, PTL DEF SystemSpec

(* Every variable of the broker, the kernel and the processes keeps its    *)
(* type.                                                                   *)
THEOREM SystemTypes == SystemSpec => []SystemTypeOK
<1>1. SystemInv => SystemTypeOK
      BY BrokerInvSafe
         DEF SystemInv, ServiceInv, ProcTypes, SystemTypeOK
<1> QED BY <1>1, SystemInvariant, PTL

(* What two processes that map one memory have in common.                  *)
LEMMA Shared ==
    ASSUME SystemInv, NEW p \in Conns, NEW q \in Conns,
           broker[p].cache # 0, broker[p].cache = broker[q].cache, p # q
    PROVE  /\ Record(p) = Record(q)
           /\ ~(broker[p].creator /\ broker[q].creator)
<1>1. /\ MappedOK(p) /\ MappedOK(q) /\ BuiltOK /\ broker[q].cache # 0
      /\ granted \subseteq Grant
      BY ConnTypes DEF SystemInv, ProcessOK, ServiceInv
<1>2. /\ broker[p].creator \/ broker[p].reattached
      /\ broker[q].creator \/ broker[q].reattached
      BY <1>1 DEF MappedOK, Grant
<1>3. ~(broker[p].creator /\ broker[q].creator)
  <2>1. PICK g \in granted :
            /\ GrantsOf(q) = {g} /\ broker[q].cache = g.cache
            /\ broker[q].creator <=> g.type = "CREATE"
        BY <1>1 DEF MappedOK
  <2> QED BY <2>1, CreatorAlone
<1>4. /\ Record(p).mapping = broker[p].cache
      /\ Record(q).mapping = broker[q].cache
      BY DEF Record, Completed
<1>5. CASE broker[p].reattached /\ broker[q].reattached
      BY <1>1, <1>4, <1>5 DEF MappedOK, BuiltOK
<1>6. CASE broker[p].creator /\ broker[q].reattached
      BY <1>1, <1>4, <1>6 DEF MappedOK
<1>7. CASE broker[p].reattached /\ broker[q].creator
      BY <1>1, <1>4, <1>7 DEF MappedOK
<1> QED BY <1>2, <1>3, <1>5, <1>6, <1>7

(* Processes that map one memory have it at one address with one lock, and *)
(* one of them at most initialised it, whatever became of the broker.      *)
THEOREM ObjectsShared == SystemSpec => []SameObjects
<1>1. SystemInv => SameObjects
  <2> SUFFICES ASSUME SystemInv, NEW p \in Conns, NEW q \in Conns,
                      broker[p].cache # 0, broker[q].cache # 0,
                      broker[p].cache = broker[q].cache
               PROVE  /\ broker[p].base = broker[q].base
                      /\ broker[p].lock = broker[q].lock
                      /\ broker[p].creator /\ broker[q].creator => p = q
      BY DEF SameObjects, Mapped
  <2>1. broker[p].lock = broker[q].lock
        BY SameLock
  <2>2. CASE p = q
        BY <2>2
  <2>3. CASE p # q
        BY <2>1, <2>3, Shared DEF Record, Completed
  <2> QED BY <2>2, <2>3
<1> QED BY <1>1, SystemInvariant, PTL

(* Memory is attached to only when its OPcache startup was completed.      *)
THEOREM AttachedComplete == SystemSpec => []AttachedBuilt
<1>1. SystemInv => AttachedBuilt
      BY DEF SystemInv, ProcessOK, MappedOK, AttachedBuilt, Mapped, Record,
         Completed
<1> QED BY <1>1, SystemInvariant, PTL

(* Processes that share memory computed the same cache key.                *)
THEOREM KeysAgree == SystemSpec => []KeyRespected
<1>1. SystemInv => KeyRespected
  <2> SUFFICES ASSUME SystemInv, NEW p \in Conns, NEW q \in Conns,
                      broker[p].cache # 0,
                      broker[p].cache = broker[q].cache, p # q
               PROVE  broker[p].cache_key = broker[q].cache_key
      BY DEF KeyRespected, Mapped
  <2> QED BY Shared DEF Record, Completed
<1> QED BY <1>1, SystemInvariant, PTL

(* One memory is changed from one process at a time.                       *)
THEOREM WritersExclude == SystemSpec => []OneWriter
<1>1. SystemInv => OneWriter
      BY DEF SystemInv
<1> QED BY <1>1, SystemInvariant, PTL

(* A publication the creator saw acknowledged is kept by the broker until  *)
(* it is gone.                                                             *)
THEOREM AcknowledgedKeeps == SystemSpec => []AcknowledgedRetained
<1>1. SystemInv => AcknowledgedRetained
  <2> SUFFICES ASSUME SystemInv, NEW p \in Conns, broker[p].ready,
                      broker[p].cache # 0, pc # "exited"
               PROVE  /\ generation.state = "READY"
                      /\ CurrentMemory = broker[p].cache
                      /\ generation.mapping_base = broker[p].base
      BY DEF AcknowledgedRetained, Mapped
  <2>1. MappedOK(p) /\ BrokerInv
        BY DEF SystemInv, ServiceInv, ProcessOK
  <2>2. /\ generation.state = "READY" /\ CacheOf = broker[p].cache
        /\ generation.mapping_base = broker[p].base
        BY <2>1 DEF MappedOK, Acknowledged
  <2>3. generation.cache_fd # -1
        BY <2>1, <2>2 DEF BrokerInv, Owned, GenerationOK
  <2> QED BY <2>2, <2>3 DEF CurrentMemory, CacheOf
<1> QED BY <1>1, SystemInvariant, PTL

-----------------------------------------------------------------------------
(* The broker makes a memory and a lock at most once for a process, so     *)
(* that there are never more than the abstract specification counts on.    *)

(* One that asked, and whose request was read or lost.                     *)
Spent(c) ==
    /\ at[c] \notin {"idle", "connected"}
    /\ \A i \in 1 .. Len(requests[c]) : requests[c][i].type # "ACQUIRE"

AllSpent == {c \in Conns : Spent(c)}

MadeInv == memfds <= 2 * Cardinality(AllSpent)

(* Counting the processes.                                                 *)
LEMMA SpentFinite ==
    /\ IsFiniteSet(AllSpent) /\ Cardinality(AllSpent) \in Nat
    /\ Cardinality(Conns) \in Nat
    /\ Cardinality(AllSpent) <= Cardinality(Conns)
<1>1. IsFiniteSet(Conns) /\ AllSpent \subseteq Conns
      BY SystemAssumption DEF AllSpent
<1> QED BY <1>1, FS_Subset, FS_CardinalityType

(* One more, when one is added to those there are.                         *)
LEMMA OneMore ==
    ASSUME NEW A, NEW B, IsFiniteSet(B), A \subseteq B
    PROVE  /\ Cardinality(A) \in Nat /\ Cardinality(B) \in Nat
           /\ Cardinality(A) <= Cardinality(B)
           /\ A # B => Cardinality(A) + 1 <= Cardinality(B)
<1>1. /\ IsFiniteSet(A) /\ Cardinality(A) <= Cardinality(B)
      /\ Cardinality(A) = Cardinality(B) => A = B
      BY FS_Subset
<1>2. Cardinality(A) \in Nat /\ Cardinality(B) \in Nat
      BY <1>1, FS_CardinalityType
<1> QED BY <1>1, <1>2

(* Reading or losing a request does not bring another.                     *)
LEMMA TakenSpent ==
    ASSUME NEW q \in Conns, requests[q] \in Seq(Requests), at'[q] = at[q],
           Taken(q), Spent(q)
    PROVE  Spent(q)'
<1>1. CASE requests'[q] = <<>>
  <2>1. 1 .. Len(requests'[q]) = {}
        BY <1>1
  <2> QED BY <2>1 DEF Spent
<1>2. CASE requests'[q] = requests[q]
      BY <1>2 DEF Spent
<1>3. CASE requests[q] # <<>> /\ requests'[q] = Tail(requests[q])
  <2>1. /\ Len(requests'[q]) = Len(requests[q]) - 1
        /\ Len(requests[q]) \in Nat
        /\ \A i \in 1 .. Len(requests'[q]) :
              requests'[q][i] = requests[q][i + 1]
        BY <1>3, HeadTailProperties
  <2>2. \A i \in 1 .. Len(requests'[q]) : i + 1 \in 1 .. Len(requests[q])
        BY <2>1
  <2> QED BY <2>1, <2>2 DEF Spent
<1> QED BY <1>1, <1>2, <1>3 DEF Taken

(* One whose ACQUIRE is handled has not spent it, and then has.            *)
LEMMA NowSpent ==
    ASSUME NEW c \in Conns, requests[c] \in Seq(Requests), RequestsOK(c),
           requests[c] # <<>>, Head(requests[c]).type = "ACQUIRE",
           requests'[c] \in {Tail(requests[c]), <<>>}, at' = at
    PROVE  ~Spent(c) /\ Spent(c)'
<1>1. /\ 1 \in 1 .. Len(requests[c]) /\ requests[c][1] = Head(requests[c])
      OBVIOUS
<1>2. ~Spent(c) /\ at[c] \notin {"idle", "connected"}
      BY <1>1 DEF Spent, RequestsOK
<1>3. CASE requests'[c] = <<>>
  <2>1. 1 .. Len(requests'[c]) = {}
        BY <1>3
  <2> QED BY <1>2, <2>1 DEF Spent
<1>4. CASE requests'[c] = Tail(requests[c])
  <2>1. /\ Len(requests'[c]) = Len(requests[c]) - 1
        /\ Len(requests[c]) \in Nat
        /\ \A i \in 1 .. Len(requests'[c]) :
              requests'[c][i] = requests[c][i + 1]
        BY <1>4, HeadTailProperties
  <2>2. \A i \in 1 .. Len(requests'[c]) :
            i + 1 \in 1 .. Len(requests[c]) /\ i + 1 # 1
        BY <2>1
  <2> QED BY <1>2, <2>1, <2>2 DEF Spent, RequestsOK
<1> QED BY <1>2, <1>3, <1>4

(* Nothing but ACQUIRE of an empty generation makes memory.                *)
LEMMA MadeNothing ==
    ASSUME BrokerStep \/ ahe_broker_handle_signal \/ Kill, ~AcquireCreates
    PROVE  memfds' = memfds
<1>1. CASE \/ LoopStops \/ LoopContinues \/ LoopClosesListener \/ TrimClient
           \/ TrimDone \/ Setup \/ SetupFails \/ Poll \/ SkipAccept
           \/ ahe_broker_add_client \/ RejectForeign \/ AcceptFails
           \/ Shutdown \/ Kill \/ ahe_broker_handle_signal
      BY <1>1 DEF LoopStops, LoopContinues, LoopClosesListener, TrimClient,
         TrimDone, Setup, SetupFails, Poll, SkipAccept, NextIteration,
         ahe_broker_add_client, RejectForeign, AcceptFails, Shutdown, Kill,
         Disconnect, ahe_broker_handle_signal, kernelVars, brokerVars
<1>2. CASE SkipClient \/ RefuseClient \/ ReceiveFails
      BY <1>2 DEF SkipClient, RefuseClient, ReceiveFails, NoMessage,
         kernelVars
<1>3. CASE AcquireFails \/ AcquireDeclined \/ AcquireGranted
      BY <1>3 DEF AcquireFails, AcquireDeclined, AcquireGranted, Reply
<1>4. CASE \/ ahe_broker_handle_ready \/ HandleAbort \/ HandleDetach
           \/ HandleOther
  <2>1. CASE HandleDetach
    <3>1. \E k : Reply("ACK", k)
          BY <2>1 DEF HandleDetach
    <3> QED BY <3>1 DEF Reply
  <2>2. CASE HandleOther
    <3>1. \E k : Reply("ERROR", k)
          BY <2>2 DEF HandleOther
    <3> QED BY <3>1 DEF Reply
  <2>3. CASE ahe_broker_handle_ready \/ HandleAbort
        BY <2>3 DEF ahe_broker_handle_ready, HandleAbort, Reply
  <2> QED BY <1>4, <2>1, <2>2, <2>3
<1> QED BY <1>1, <1>2, <1>3, <1>4
        DEF BrokerStep, ahe_broker_handle_client_message,
            ahe_broker_handle_acquire

-----------------------------------------------------------------------------
(* That is kept by every step.                                             *)

(* By the broker's.                                                        *)
LEMMA BrokerSpends ==
    ASSUME SystemInv, Waits, BrokerStep \/ ahe_broker_handle_signal \/ Kill
    PROVE  /\ \A q \in Conns : Spent(q) => Spent(q)'
           /\ \/ memfds' = memfds
              \/ /\ memfds' = memfds + 2
                 /\ \E c \in Conns : ~Spent(c) /\ Spent(c)'
<1>1. /\ ServiceInv /\ BrokerInv /\ \A q \in Conns : RequestsOK(q)
      /\ at' = at
      BY DEF SystemInv, ServiceInv, ProcessOK, Waits, procVars
<1>2. requests \in [Conns -> Seq(Requests)]
      BY <1>1, ConnTypes
<1>3. \A q \in Conns : Taken(q)
  <2>1. BrokerSays
        BY <1>1, StepSays
  <2>2. ASSUME NEW c \in Conns, SaysAgain(c)
        PROVE  FALSE
    <3>1. GrantsOf(c) # {}
          BY <1>1, <2>2, OwnerGrant DEF SaysAgain
    <3> QED BY <2>2, <3>1, FirstAsked DEF SaysAgain
  <2>3. ASSUME NEW c \in Conns, NEW reply, Answers(c, reply)
        PROVE  \A q \in Conns : Taken(q)
        BY <2>3 DEF Answers, Taken
  <2>4. CASE SaysNothing
        BY <2>4 DEF SaysNothing, Mute
  <2> QED BY <2>1, <2>2, <2>3, <2>4
          DEF BrokerSays, SaysPlain, SaysPublished, SaysCreate, SaysAttach
<1>4. \A q \in Conns : Spent(q) => Spent(q)'
      BY <1>1, <1>2, <1>3, TakenSpent
<1>5. CASE ~AcquireCreates
      BY <1>4, <1>5, MadeNothing
<1>6. CASE AcquireCreates
  <2>1. memfds' = memfds + 2 /\ ahe_broker_receive_message("ACQUIRE")
        BY <1>6 DEF AcquireCreates
  <2>2. PICK reply, gen, table :
            ahe_broker_send_message(reply) /\ Finish(gen, table, CanSend)
        BY <1>6 DEF AcquireCreates
  <2>3. PICK c : c = Conn(client_index)
        OBVIOUS
  <2>4. /\ c \in Conns
        /\ Head(requests[c]) = Received /\ Received.type = "ACQUIRE"
        /\ requests[c] # <<>>
        /\ requests'[c] \in {Tail(requests[c]), <<>>}
        BY <1>1, <2>1, <2>2, <2>3, TurnSays
  <2>5. ~Spent(c) /\ Spent(c)'
        BY <1>1, <1>2, <2>4, NowSpent
  <2> QED BY <1>4, <2>1, <2>4, <2>5
<1> QED BY <1>5, <1>6

(* What each process does leaves the others where they are.                *)
LEMMA MoverOnly ==
    ASSUME ProcTypes, NEW p \in Conns,
           \/ ahe_broker_connect(p) \/ ConnectFails(p) \/ ProcessStep(p)
           \/ Crash(p)
    PROVE  \A q \in Conns : q # p => SameProc(q)
<1>1. at \in [Conns -> Places] /\ broker \in [Conns -> BrokerClient]
      BY DEF ProcTypes
<1>2. (\E there : Go(p, there))
  <2>1. CASE ahe_broker_connect(p) \/ ConnectFails(p)
        BY <2>1 DEF ahe_broker_connect, ConnectFails
  <2>2. CASE ProcessStep(p) \/ Crash(p)
        BY <2>2 DEF ProcessStep, Crash, SendAcquire,
           ahe_broker_client_acquire, Map, AcquireGivesUp,
           ahe_broker_client_close_descriptors, ahe_startup_complete,
           ahe_broker_client_publish, PublishGivesUp, Restore, StartupFails,
           ahe_broker_client_abort, AbortAnswered, ahe_broker_client_lock,
           ahe_broker_client_unlock, ahe_broker_client_detach,
           ahe_broker_client_shutdown, DetachAnswered, Leave, Gone
  <2> QED BY <2>1, <2>2
<1>3. \E client : broker' = [broker EXCEPT ![p] = client]
  <2>1. CASE ahe_broker_connect(p) \/ ConnectFails(p)
        BY <1>1, <2>1 DEF ahe_broker_connect, ConnectFails
  <2>2. CASE ProcessStep(p) \/ Crash(p)
        BY <1>1, <2>2 DEF ProcessStep, Crash, SendAcquire,
           ahe_broker_client_acquire, Map, AcquireGivesUp,
           ahe_broker_client_close_descriptors, ahe_startup_complete,
           ahe_broker_client_publish, PublishGivesUp, Restore, StartupFails,
           ahe_broker_client_abort, AbortAnswered, ahe_broker_client_lock,
           ahe_broker_client_unlock, ahe_broker_client_detach,
           ahe_broker_client_shutdown, DetachAnswered, Leave, Gone
  <2> QED BY <2>1, <2>2
<1> QED BY <1>1, <1>2, <1>3 DEF Go, SameProc

-----------------------------------------------------------------------------
(* By the processes'.                                                      *)

(* A process asks when it has connected, and then never again.             *)
LEMMA AsksOnce ==
    ASSUME ProcTypes, NEW p \in Conns, MappedOK(p), PlaceOK(p),
           \/ ahe_broker_connect(p) \/ ConnectFails(p) \/ ProcessStep(p)
           \/ Crash(p)
    PROVE  /\ \/ UNCHANGED vars \/ PeerConnect(p) \/ PeerReceive(p)
              \/ PeerClose(p)
              \/ \E r \in Requests :
                    /\ PeerSend(p, r)
                    /\ r.type = "ACQUIRE" => at[p] = "connected"
           /\ at'[p] \in {"idle", "connected"} => at[p] = "idle"
<1>1. at \in [Conns -> Places]
      BY DEF ProcTypes
<1>2. CASE ahe_broker_connect(p) \/ ConnectFails(p)
      BY <1>1, <1>2 DEF ahe_broker_connect, ConnectFails, Go
<1>3. CASE SendAcquire(p)
      BY <1>1, <1>3, SentRequests DEF SendAcquire, SendFails, Go
<1>4. CASE ahe_startup_complete(p)
  <2>1. /\ at[p] = "starting"
        /\ UNCHANGED vars \/ PeerSend(p, Ready(broker[p].base))
        /\ at'[p] \in {"publishing", "abandon"}
        BY <1>1, <1>4 DEF ahe_startup_complete, SendFails, Go
  <2>2. broker[p].base \in Addresses
        BY <2>1 DEF PlaceOK, MappedOK
  <2> QED BY <2>1, <2>2, SentRequests
<1>5. CASE ahe_broker_client_abort(p) \/ ahe_broker_client_shutdown(p)
      BY <1>1, <1>5, SentRequests
         DEF ahe_broker_client_abort, ahe_broker_client_shutdown, SendFails,
             Go
<1>6. CASE \/ ahe_broker_client_acquire(p) \/ AcquireGivesUp(p)
           \/ ahe_broker_client_close_descriptors(p)
           \/ ahe_broker_client_publish(p) \/ PublishGivesUp(p)
      BY <1>1, <1>6
         DEF ahe_broker_client_acquire, Map, AcquireGivesUp,
             ahe_broker_client_close_descriptors, ReceiveNothing, Go,
             ahe_broker_client_publish, PublishGivesUp
<1>7. CASE \/ Restore(p) \/ StartupFails(p) \/ AbortAnswered(p)
           \/ ahe_broker_client_lock(p) \/ ahe_broker_client_unlock(p)
           \/ ahe_broker_client_detach(p) \/ DetachAnswered(p)
           \/ Leave(p) \/ Crash(p)
      BY <1>1, <1>7
         DEF Restore, StartupFails, AbortAnswered, ahe_broker_client_lock,
             ahe_broker_client_unlock, ahe_broker_client_detach,
             DetachAnswered, Leave, Crash, Gone, ReceiveNothing, Go
<1> QED BY <1>2, <1>3, <1>4, <1>5, <1>6, <1>7 DEF ProcessStep

(* So what it spent stays spent.                                           *)
LEMMA ProcessSpends ==
    ASSUME SystemInv, NEW p \in Conns,
           \/ ahe_broker_connect(p) \/ ConnectFails(p) \/ ProcessStep(p)
           \/ Crash(p)
    PROVE  /\ \A q \in Conns : Spent(q) => Spent(q)'
           /\ memfds' = memfds
<1>1. BrokerInv /\ ProcTypes /\ MappedOK(p) /\ PlaceOK(p)
      BY DEF SystemInv, ServiceInv, ProcessOK
<1>2. \A q \in Conns : q # p => SameProc(q)
      BY <1>1, MoverOnly
<1>3. /\ \/ UNCHANGED vars \/ PeerConnect(p) \/ PeerReceive(p)
         \/ PeerClose(p)
         \/ \E r \in Requests :
               /\ PeerSend(p, r)
               /\ r.type = "ACQUIRE" => at[p] = "connected"
      /\ at'[p] \in {"idle", "connected"} => at[p] = "idle"
      BY <1>1, AsksOnce
<1>4. Speaks(p)
      BY <1>3 DEF Speaks
<1>5. Still /\ \A q \in Conns : q # p => SameConn(q)
      BY <1>1, <1>4, SpeaksLocal
<1>6. \A q \in Conns : q # p /\ Spent(q) => Spent(q)'
      BY <1>2, <1>5 DEF Spent, SameProc, SameConn
<1>7. Spent(p) => Spent(p)'
  <2>1. CASE requests'[p] = requests[p]
        BY <1>3, <2>1 DEF Spent
  <2>2. ASSUME NEW r \in Requests, PeerSend(p, r),
               r.type = "ACQUIRE" => at[p] = "connected", Spent(p)
        PROVE  Spent(p)'
    <3>1. /\ requests'[p] = Append(requests[p], r)
          /\ requests[p] \in Seq(Requests)
          BY <1>1, <2>2, SendConn
    <3>2. r.type # "ACQUIRE"
          BY <2>2 DEF Spent
    <3>3. /\ Len(requests'[p]) = Len(requests[p]) + 1
          /\ Len(requests[p]) \in Nat
          /\ requests'[p][Len(requests[p]) + 1] = r
          /\ \A i \in 1 .. Len(requests[p]) :
                requests'[p][i] = requests[p][i]
          BY <3>1
    <3> QED BY <1>3, <2>2, <3>2, <3>3 DEF Spent
  <2>3. UNCHANGED vars \/ PeerConnect(p) \/ PeerReceive(p) \/ PeerClose(p)
            => requests'[p] = requests[p]
        BY <1>1, ConnectConn, ReceiveConn, CloseConn DEF vars
  <2> QED BY <1>3, <2>1, <2>2, <2>3
<1> QED BY <1>5, <1>6, <1>7 DEF Still

(* The count after a step.                                                 *)
LEMMA MadeStep ==
    ASSUME SystemInv, MadeInv, [SystemNext]_systemVars
    PROVE  MadeInv'
<1>1. memfds \in Nat
      BY DEF SystemInv, ServiceInv, BrokerInv, RestOK
<1>2. /\ \A q \in Conns : Spent(q) => Spent(q)'
      /\ \/ memfds' = memfds
         \/ /\ memfds' = memfds + 2
            /\ \E c \in Conns : ~Spent(c) /\ Spent(c)'
  <2>1. CASE UNCHANGED systemVars
        BY <2>1 DEF systemVars, vars, procVars, Spent
  <2>2. CASE SystemNext
        BY <2>2, BrokerSpends, ProcessSpends DEF SystemNext, Waits
  <2> QED BY <2>1, <2>2
<1> DEFINE S == AllSpent
           T == {c \in Conns : Spent(c)'}
<1>3. AllSpent' = T
      BY DEF AllSpent
<1>4. IsFiniteSet(T)
      BY SystemAssumption, FS_Subset
<1>5. S \subseteq T
      BY <1>2 DEF AllSpent
<1>6. /\ Cardinality(S) \in Nat /\ Cardinality(T) \in Nat
      /\ Cardinality(S) <= Cardinality(T)
      /\ S # T => Cardinality(S) + 1 <= Cardinality(T)
      BY <1>4, <1>5, OneMore
<1>7. memfds' = memfds \/ (memfds' = memfds + 2 /\ S # T)
      BY <1>2 DEF AllSpent
<1>8. memfds <= 2 * Cardinality(S)
      BY DEF MadeInv
<1>9. memfds' <= 2 * Cardinality(T)
  <2> HIDE DEF S, T
  <2> QED BY <1>1, <1>6, <1>7, <1>8
<1> QED BY <1>3, <1>9 DEF MadeInv

(* There is memory for every process, and no more.                         *)
LEMMA MadeInvariant == SystemSpec => [](SystemInv /\ MadeInv)
<1>1. SystemInit => SystemInv /\ MadeInv
  <2>1. SystemInit => MadeInv
    <3>1. Cardinality(AllSpent) \in Nat
          BY SpentFinite
    <3> QED BY <3>1 DEF SystemInit, Init, MadeInv
  <2> QED BY <2>1, SystemInitially
<1>2. SystemInv /\ MadeInv /\ [SystemNext]_systemVars
          => (SystemInv /\ MadeInv)'
      BY SystemStep, MadeStep
<1> QED BY <1>1, <1>2, PTL DEF SystemSpec

-----------------------------------------------------------------------------
(* The processes implement AheSharing.                                     *)

(* Its variables, of the processes.                                        *)
MappingNow == [p \in Conns |-> broker[p].cache]
BaseNow == [p \in Conns |-> broker[p].base]
KeyOf(client) == IF client.cache # 0 THEN client.cache_key ELSE EmptyKey
KeyNow == [p \in Conns |-> KeyOf(broker[p])]
LockedNow == {p \in Conns : at[p] = "locked"}
SharingNow == <<MappingNow, BaseNow, KeyNow, built, LockedNow>>

(* The refinement mapping of RefinesSharing.                               *)
LEMMA SharingMapped ==
    /\ [p \in Conns |-> IF Mapped(p) THEN broker[p].cache_key ELSE EmptyKey]
           = KeyNow
    /\ [p \in Conns |-> IF Mapped(p)' THEN broker'[p].cache_key
                                      ELSE EmptyKey] = KeyNow'
BY DEF KeyNow, KeyOf, Mapped

(* What a process changes of them.                                         *)
LEMMA ViewMoves ==
    ASSUME NEW p \in Conns, \A q \in Conns : q # p => SameProc(q)
    PROVE  /\ MappingNow' = [MappingNow EXCEPT ![p] = broker'[p].cache]
           /\ BaseNow' = [BaseNow EXCEPT ![p] = broker'[p].base]
           /\ KeyNow' = [KeyNow EXCEPT ![p] = KeyOf(broker'[p])]
           /\ at'[p] = "locked" => LockedNow' = LockedNow \cup {p}
           /\ at'[p] # "locked" => LockedNow' = LockedNow \ {p}
BY DEF MappingNow, BaseNow, KeyNow, LockedNow, SameProc

(* One that maps what it had, at the place it had, has not moved.          *)
LEMMA ViewKept ==
    ASSUME NEW p \in Conns, \A q \in Conns : q # p => SameProc(q),
           built' = built,
           broker'[p].cache = broker[p].cache,
           broker'[p].base = broker[p].base,
           KeyOf(broker'[p]) = KeyOf(broker[p]),
           at'[p] = "locked" <=> at[p] = "locked"
    PROVE  UNCHANGED SharingNow
<1>1. /\ MappingNow' = MappingNow /\ BaseNow' = BaseNow
      /\ KeyNow' = KeyNow
      BY DEF MappingNow, BaseNow, KeyNow, SameProc
<1>2. LockedNow' = LockedNow
      BY DEF LockedNow, SameProc
<1> QED BY <1>1, <1>2 DEF SharingNow

(* Most of what a process does.                                            *)
LEMMA QuietMoves ==
    ASSUME SystemInv, NEW p \in Conns,
           \/ ahe_broker_connect(p) \/ ConnectFails(p) \/ SendAcquire(p)
           \/ AcquireGivesUp(p) \/ ahe_broker_client_close_descriptors(p)
           \/ ahe_broker_client_publish(p) \/ PublishGivesUp(p)
           \/ Restore(p) \/ StartupFails(p) \/ ahe_broker_client_abort(p)
           \/ AbortAnswered(p) \/ ahe_broker_client_shutdown(p)
           \/ DetachAnswered(p)
    PROVE  UNCHANGED SharingNow
<1>1. ProcTypes /\ PlaceOK(p)
      BY DEF SystemInv, ProcessOK
<1>2. \A q \in Conns : q # p => SameProc(q)
      BY <1>1, MoverOnly DEF ProcessStep
<1>3. at \in [Conns -> Places] /\ broker \in [Conns -> BrokerClient]
      BY <1>1 DEF ProcTypes
<1>4. /\ built' = built
      /\ at[p] # "locked" /\ at'[p] # "locked"
      BY <1>3 DEF ahe_broker_connect, ConnectFails, SendAcquire,
         AcquireGivesUp, ahe_broker_client_close_descriptors,
         ahe_broker_client_publish, PublishGivesUp, Restore, StartupFails,
         ahe_broker_client_abort, AbortAnswered, ahe_broker_client_shutdown,
         DetachAnswered, Go
<1>5. CASE SendAcquire(p)
  <2>1. broker[p].cache = 0
        BY <1>1, <1>5 DEF SendAcquire, PlaceOK
  <2>2. broker' = broker
        \/ \E k : broker' = [broker EXCEPT ![p].cache_key = k]
        BY <1>5 DEF SendAcquire
  <2>3. /\ broker'[p].cache = broker[p].cache
        /\ broker'[p].base = broker[p].base
        BY <1>3, <2>2 DEF BrokerClient
  <2> QED BY <1>2, <1>4, <2>1, <2>3, ViewKept DEF KeyOf
<1>6. CASE ~SendAcquire(p)
  <2>1. \/ broker' = broker
        \/ broker' = [broker EXCEPT ![p].ready = TRUE]
        \/ \E w : broker' = [broker EXCEPT ![p].warned = w]
        BY <1>6 DEF ahe_broker_connect, ConnectFails,
         AcquireGivesUp, ahe_broker_client_close_descriptors,
         ahe_broker_client_publish, PublishGivesUp, Restore, StartupFails,
         ahe_broker_client_abort, AbortAnswered, ahe_broker_client_shutdown,
         DetachAnswered
  <2>2. /\ broker'[p].cache = broker[p].cache
        /\ broker'[p].base = broker[p].base
        /\ broker'[p].cache_key = broker[p].cache_key
        BY <1>3, <2>1 DEF BrokerClient
  <2> QED BY <1>2, <1>4, <2>2, ViewKept DEF KeyOf
<1> QED BY <1>5, <1>6

-----------------------------------------------------------------------------
(* The steps that the abstract specification sees.                         *)

(* The memory of a process is one of those there will ever be.             *)
LEMMA GrantedMapping ==
    ASSUME SystemInv, MadeInv, NEW g \in granted
    PROVE  g.cache \in Mappings
<1>1. g.cache \in 1 .. memfds /\ memfds \in Nat
      BY DEF SystemInv, ServiceInv, GrantsOK, BrokerInv, RestOK
<1>2. memfds <= 2 * Cardinality(Conns)
      BY <1>1, SpentFinite DEF MadeInv
<1> QED BY <1>1, <1>2, SpentFinite DEF Mappings

(* Memory that one process is to initialise is mapped by no other.         *)
LEMMA NobodyMaps ==
    ASSUME SystemInv, NEW p \in Conns, NEW g \in granted,
           g.conn = p, g.type = "CREATE", Unbuilt(g.cache),
           broker[p].cache = 0, NEW q \in Conns
    PROVE  broker[q].cache # g.cache
<1> SUFFICES ASSUME broker[q].cache = g.cache PROVE FALSE
    OBVIOUS
<1>1. /\ GrantsAgree /\ MappedOK(q) /\ granted \subseteq Grant
      /\ g.cache # 0
      BY ConnTypes DEF SystemInv, ServiceInv, ProcessOK, GrantsOK
<1>2. PICK h \in granted :
          /\ GrantsOf(q) = {h} /\ broker[q].cache = h.cache
          /\ broker[q].reattached <=> h.type = "ATTACH"
      BY <1>1 DEF MappedOK
<1>3. CASE h.type = "CREATE"
  <2>1. h.conn = g.conn
    <3>1. h.cache = g.cache
          BY <1>2
    <3> QED BY <1>1, <1>3, <3>1 DEF GrantsAgree
  <2>2. h.conn = q
        BY <1>2 DEF GrantsOf
  <2> QED BY <1>1, <2>1, <2>2
<1>4. CASE h.type = "ATTACH"
  <2>1. Record(q) \in built
        BY <1>1, <1>2, <1>4 DEF MappedOK
  <2> QED BY <2>1 DEF Unbuilt, Record, Completed
<1> QED BY <1>1, <1>3, <1>4 DEF Grant

(* What a process maps is fresh, or completed with its key.                *)
LEMMA AcquireShares ==
    ASSUME SystemInv, MadeInv, NEW p \in Conns,
           ahe_broker_client_acquire(p)
    PROVE  Sharing!MapFresh(p) \/ Sharing!MapBuilt(p)
<1>1. /\ ProcTypes /\ BrokerInv /\ PlaceOK(p) /\ MappedOK(p)
      BY DEF SystemInv, ServiceInv, ProcessOK
<1>2. /\ at[p] = "acquiring" /\ PeerReceive(p) /\ built' = built
      BY DEF ahe_broker_client_acquire
<1>3. replies[p] # <<>> /\ replies[p] \in Seq(Replies)
      BY <1>1, <1>2, ReceiveConn
<1>4. /\ broker[p].cache_key \in Keys /\ broker[p].cache = 0
      /\ Len(replies[p]) = 1 /\ Answer(p, replies[p][1])
      BY <1>1, <1>2, <1>3 DEF PlaceOK, Asking, Quiet
<1>5. /\ Head(replies[p]) = replies[p][1] /\ replies[p][1] \in Replies
      BY <1>3, <1>4, OnlyOne
<1>6. PICK reply \in Replies : reply = replies[p][1]
      BY <1>5
<1>7. PICK address \in Addresses : Map(p, reply, address)
      BY <1>5, <1>6 DEF ahe_broker_client_acquire
<1>8. /\ reply.type \in {"CREATE", "ATTACH"} /\ reply.cache # 0
      /\ reply.type = "ATTACH" => reply.mapping_base = address
      /\ at'[p] \in {"starting", "restoring"}
      BY <1>1, <1>7 DEF Map, Go, ProcTypes
<1>9. /\ broker'[p].cache = reply.cache /\ broker'[p].base = address
      /\ broker'[p].cache_key = broker[p].cache_key
  <2>1. broker[p] \in BrokerClient /\ broker \in [Conns -> BrokerClient]
        BY <1>1 DEF ProcTypes
  <2> QED BY <1>7, <2>1 DEF Map, BrokerClient
<1>10. PICK g \in granted :
          /\ GrantsOf(p) = {g} /\ reply.type = g.type
          /\ reply.cache = g.cache /\ reply.mapping_base = g.mapping_base
          /\ g.type = "CREATE" => Unbuilt(g.cache)
          /\ g.type = "ATTACH" =>
                Completed(g.cache, g.mapping_base, broker[p].cache_key)
                    \in built
      BY <1>4, <1>6, <1>8 DEF Answer
<1>11. \A q \in Conns : q # p => SameProc(q)
      BY <1>1, MoverOnly DEF ProcessStep
<1>12. /\ MappingNow' = [MappingNow EXCEPT ![p] = g.cache]
       /\ BaseNow' = [BaseNow EXCEPT ![p] = address]
       /\ KeyNow' = [KeyNow EXCEPT ![p] = broker[p].cache_key]
       /\ LockedNow' = LockedNow
      BY <1>2, <1>8, <1>9, <1>10, <1>11, ViewMoves DEF KeyOf, LockedNow
<1>13. MappingNow[p] = 0
      BY <1>4 DEF MappingNow
<1>14. CASE reply.type = "CREATE"
  <2>1. g.conn = p
        BY <1>10 DEF GrantsOf
  <2>2. /\ \A q \in Conns : MappingNow[q] # g.cache
        /\ \A b \in built : b.mapping # g.cache
        BY <1>4, <1>10, <1>14, <2>1, NobodyMaps DEF MappingNow, Unbuilt
  <2>3. g.cache \in Mappings \ Sharing!Used
        BY <2>2, GrantedMapping DEF Sharing!Used, MappingNow
  <2>4. Sharing!MapFresh(p)
        BY <1>2, <1>4, <1>12, <1>13, <2>3, SharingMapped
           DEF Sharing!MapFresh, MappingNow, BaseNow, LockedNow
  <2> QED BY <2>4
<1>15. CASE reply.type = "ATTACH"
  <2>1. Completed(g.cache, address, broker[p].cache_key) \in built
        BY <1>8, <1>10, <1>15
  <2>2. PICK b \in built : b.mapping = g.cache /\ b.base = address
                           /\ b.key = broker[p].cache_key
        BY <2>1 DEF Completed
  <2>3. Sharing!MapBuilt(p)
        BY <1>2, <1>12, <1>13, <2>2, SharingMapped
           DEF Sharing!MapBuilt, MappingNow, BaseNow, LockedNow
  <2> QED BY <2>3
<1> QED BY <1>8, <1>14, <1>15

(* What it completes was not completed before.                             *)
LEMMA StartupShares ==
    ASSUME SystemInv, NEW p \in Conns, ahe_startup_complete(p)
    PROVE  Sharing!Complete(p)
<1>1. ProcTypes /\ PlaceOK(p)
      BY DEF SystemInv, ProcessOK
<1>2. /\ at[p] = "starting" /\ broker' = broker
      /\ built' = built \cup {Record(p)}
      /\ at'[p] # "locked"
      BY <1>1 DEF ahe_startup_complete, Record, Completed, Go, ProcTypes
<1>3. broker[p].cache # 0 /\ Unbuilt(broker[p].cache)
      BY <1>1, <1>2 DEF PlaceOK
<1>4. \A q \in Conns : q # p => SameProc(q)
      BY <1>1, MoverOnly DEF ProcessStep
<1>5. /\ MappingNow' = MappingNow /\ BaseNow' = BaseNow /\ KeyNow' = KeyNow
      BY <1>2 DEF MappingNow, BaseNow, KeyNow
<1>6. LockedNow' = LockedNow
      BY <1>2, <1>4, ViewMoves DEF LockedNow
<1>7. Sharing!Mine(p) = Record(p)
      BY <1>3 DEF Sharing!Mine, Record, Completed, Mapped
<1> QED BY <1>2, <1>3, <1>5, <1>6, <1>7, SharingMapped
        DEF Sharing!Complete, MappingNow, BaseNow, LockedNow, Unbuilt

-----------------------------------------------------------------------------
(* The lock, and the end.                                                  *)

(* The lock is taken on completed memory that nobody else changes.         *)
LEMMA LockShares ==
    ASSUME SystemInv, NEW p \in Conns, ahe_broker_client_lock(p)
    PROVE  Sharing!Lock(p)
<1>1. ProcTypes /\ PlaceOK(p)
      BY DEF SystemInv, ProcessOK
<1>2. /\ at[p] = "running" /\ broker' = broker /\ built' = built
      /\ ~Excluded(p) /\ at'[p] = "locked"
      BY <1>1 DEF ahe_broker_client_lock, Go, ProcTypes
<1>3. broker[p].cache # 0 /\ Record(p) \in built
      BY <1>1, <1>2 DEF PlaceOK
<1>4. \A q \in Conns : q # p => SameProc(q)
      BY <1>1, MoverOnly DEF ProcessStep
<1>5. /\ MappingNow' = MappingNow /\ BaseNow' = BaseNow /\ KeyNow' = KeyNow
      BY <1>2 DEF MappingNow, BaseNow, KeyNow
<1>6. LockedNow' = LockedNow \cup {p}
      BY <1>2, <1>4, ViewMoves
<1>7. \A q \in LockedNow : MappingNow[q] # MappingNow[p]
  <2> SUFFICES ASSUME NEW q \in Conns, at[q] = "locked",
                      broker[p].cache = broker[q].cache
               PROVE  FALSE
      BY DEF LockedNow, MappingNow
  <2>1. q # p
        BY <1>2
  <2>2. broker[p].lock = broker[q].lock
        BY <1>3, SameLock
  <2> QED BY <1>2, <2>1, <2>2 DEF Excluded
<1>8. Sharing!Mine(p) = Record(p)
      BY <1>3 DEF Sharing!Mine, Record, Completed, Mapped
<1> QED BY <1>2, <1>3, <1>5, <1>6, <1>7, <1>8, SharingMapped
        DEF Sharing!Lock, MappingNow, BaseNow, LockedNow

(* And released.                                                           *)
LEMMA UnlockShares ==
    ASSUME SystemInv, NEW p \in Conns, ahe_broker_client_unlock(p)
    PROVE  Sharing!Unlock(p)
<1>1. ProcTypes
      BY DEF SystemInv
<1>2. /\ at[p] = "locked" /\ broker' = broker /\ built' = built
      /\ at'[p] # "locked"
      BY <1>1 DEF ahe_broker_client_unlock, Go, ProcTypes
<1>3. \A q \in Conns : q # p => SameProc(q)
      BY <1>1, MoverOnly DEF ProcessStep
<1>4. /\ MappingNow' = MappingNow /\ BaseNow' = BaseNow /\ KeyNow' = KeyNow
      BY <1>2 DEF MappingNow, BaseNow, KeyNow
<1>5. LockedNow' = LockedNow \ {p} /\ p \in LockedNow
      BY <1>2, <1>3, ViewMoves DEF LockedNow
<1> QED BY <1>2, <1>4, <1>5, SharingMapped
        DEF Sharing!Unlock, MappingNow, BaseNow, LockedNow

(* A process that detaches or dies leaves the memory to the others.        *)
LEMMA UnmapShares ==
    ASSUME SystemInv, NEW p \in Conns,
           \/ ahe_broker_client_detach(p) \/ Leave(p) \/ Crash(p)
    PROVE  Sharing!Unmap(p) \/ UNCHANGED SharingNow
<1>1. ProcTypes /\ PlaceOK(p) /\ MappedOK(p)
      BY DEF SystemInv, ProcessOK
<1>2. broker \in [Conns -> BrokerClient] /\ at \in [Conns -> Places]
      BY <1>1 DEF ProcTypes
<1>3. built' = built /\ at'[p] # "locked"
      BY <1>2 DEF ahe_broker_client_detach, Leave, Crash, Gone, Go
<1>4. broker'[p].cache = 0 /\ broker'[p].base = 0
      BY <1>2 DEF ahe_broker_client_detach, Leave, Crash, Gone,
         AHE_BROKER_CLIENT_INITIALIZER, BrokerClient
<1>5. \A q \in Conns : q # p => SameProc(q)
      BY <1>1, MoverOnly DEF ProcessStep
<1>6. CASE broker[p].cache # 0
  <2>1. /\ MappingNow' = [MappingNow EXCEPT ![p] = 0]
        /\ BaseNow' = [BaseNow EXCEPT ![p] = 0]
        /\ KeyNow' = [KeyNow EXCEPT ![p] = EmptyKey]
        /\ LockedNow' = LockedNow \ {p}
        BY <1>3, <1>4, <1>5, ViewMoves DEF KeyOf
  <2>2. Sharing!Unmap(p)
        BY <1>3, <1>6, <2>1, SharingMapped
           DEF Sharing!Unmap, MappingNow, BaseNow, LockedNow
  <2> QED BY <2>2
<1>7. CASE broker[p].cache = 0
  <2>1. at[p] # "locked" /\ broker[p].base = 0
        BY <1>1, <1>7 DEF PlaceOK, MappedOK
  <2> QED BY <1>3, <1>4, <1>5, <1>7, <2>1, ViewKept DEF KeyOf
<1> QED BY <1>6, <1>7

(* Every step.                                                             *)
LEMMA StepShares ==
    ASSUME SystemInv, MadeInv, [SystemNext]_systemVars
    PROVE  UNCHANGED SharingNow \/ Sharing!SharingNext
<1>1. CASE UNCHANGED procVars
      BY <1>1 DEF procVars, SharingNow, MappingNow, BaseNow, KeyNow,
         LockedNow
<1>2. ASSUME NEW p \in Conns,
             \/ ahe_broker_connect(p) \/ ConnectFails(p) \/ ProcessStep(p)
             \/ Crash(p)
      PROVE  UNCHANGED SharingNow \/ Sharing!SharingNext
  <2>1. \/ UNCHANGED SharingNow
        \/ Sharing!MapFresh(p) \/ Sharing!MapBuilt(p) \/ Sharing!Complete(p)
        \/ Sharing!Lock(p) \/ Sharing!Unlock(p) \/ Sharing!Unmap(p)
        BY <1>2, QuietMoves, AcquireShares, StartupShares, LockShares,
           UnlockShares, UnmapShares DEF ProcessStep
  <2> QED BY <2>1 DEF Sharing!SharingNext
<1>3. CASE UNCHANGED systemVars
      BY <1>1, <1>3 DEF systemVars
<1> QED BY <1>1, <1>2, <1>3 DEF SystemNext

(* The processes, the broker and every fault between them implement the    *)
(* promises of docs/architecture.md, for any number of processes.          *)
THEOREM SystemRefines == SystemSpec => RefinesSharing
<1>1. SystemInit => Sharing!SharingInit
  <2> SUFFICES ASSUME SystemInit PROVE Sharing!SharingInit
      OBVIOUS
  <2>1. /\ built = {} /\ at = [p \in Conns |-> "idle"]
        /\ broker = [p \in Conns |-> AHE_BROKER_CLIENT_INITIALIZER]
        BY DEF SystemInit
  <2> QED BY <2>1 DEF Sharing!SharingInit, AHE_BROKER_CLIENT_INITIALIZER,
          Mapped
<1>2. SystemInv /\ MadeInv /\ [SystemNext]_systemVars
          => [Sharing!SharingNext]_(Sharing!sharingVars)
  <2> SUFFICES ASSUME SystemInv, MadeInv, [SystemNext]_systemVars
               PROVE  [Sharing!SharingNext]_(Sharing!sharingVars)
      OBVIOUS
  <2>1. CASE UNCHANGED SharingNow
        BY <2>1, SharingMapped DEF SharingNow, MappingNow, BaseNow,
           LockedNow, Sharing!sharingVars
  <2> QED BY <2>1, StepShares
<1> QED BY <1>1, <1>2, MadeInvariant, PTL
        DEF SystemSpec, RefinesSharing, Sharing!SharingSpec

=============================================================================
