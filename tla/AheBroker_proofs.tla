-------------------------- MODULE AheBroker_proofs ---------------------------
(***************************************************************************)
(* For any number of connections, any requests and any limits: the types,  *)
(* the ownership of descriptors, the creator of the generation and the     *)
(* alignment of the poll array.                                            *)
(***************************************************************************)
EXTENDS AheBroker, TLAPS

USE DEF NoFd, NoId

(* The parts of the invariant as functions of what they relate, so that    *)
(* they can be stated in the middle of a handler too.                      *)
Links == [Conns -> {"new", "backlog", "served", "dropped"}]

TableOK(table) ==
    /\ table \in [Fd -> Objects]
    /\ \A f \in Fd : table[f].kind = "memfd" => table[f].id \in Nat \ {0}

ClientsOK(cls, table, lnk) ==
    /\ cls \in Seq(Client)
    /\ lnk \in Links
    /\ \A i, j \in 1 .. Len(cls) : cls[i].fd = cls[j].fd => i = j
    /\ \A i \in 1 .. Len(cls) :
          /\ table[cls[i].fd].kind = "socket"
          /\ table[cls[i].fd].id \in Conns
          /\ lnk[table[cls[i].fd].id] = "served"
    /\ \A i, j \in 1 .. Len(cls) :
          table[cls[i].fd].id = table[cls[j].fd].id => i = j
    /\ \A c \in Conns : lnk[c] = "served" =>
          \E i \in 1 .. Len(cls) : table[cls[i].fd].id = c

GenerationOK(gen, table) ==
    /\ gen \in Generations
    /\ IF gen.state = "EMPTY" THEN gen = ahe_generation_init
       ELSE /\ gen.cache_fd # NoFd /\ gen.lock_fd # NoFd
            /\ gen.cache_fd # gen.lock_fd
            /\ table[gen.cache_fd].kind = "memfd"
            /\ table[gen.lock_fd].kind = "memfd"

ListenerOK(lfd, table) ==
    /\ lfd \in Fd \cup {NoFd}
    /\ lfd # NoFd => table[lfd] = Listener

NoLeak(cls, gen, table, lfd) ==
    \A f \in Fd : table[f] # Closed =>
        \/ \E i \in 1 .. Len(cls) : cls[i].fd = f
        \/ f = gen.cache_fd \/ f = gen.lock_fd \/ f = lfd

Owned(cls, gen, table, lnk, lfd) ==
    /\ TableOK(table)
    /\ ClientsOK(cls, table, lnk)
    /\ GenerationOK(gen, table)
    /\ ListenerOK(lfd, table)
    /\ NoLeak(cls, gen, table, lfd)

CreatorOK(cls, gen, table, gr) ==
    IF gen.state = "INITIALIZING"
    THEN \E i \in 1 .. Len(cls) :
            /\ cls[i].fd = gen.creator_fd
            /\ \E g \in gr :
                  /\ g.conn = table[cls[i].fd].id /\ g.type = "CREATE"
                  /\ g.cache = table[gen.cache_fd].id
                  /\ g.lock = table[gen.lock_fd].id
    ELSE gen.creator_fd = NoFd

LoopOK ==
    /\ pc = "trim" => client_index <= Len(clients)
    /\ pc = "poll" =>
          /\ Len(poll_fds) = Len(clients)
          /\ \A i \in 1 .. Len(clients) : clients[i].fd = poll_fds[i].fd
    /\ PollAligned
    /\ pc = "serve" /\ listener_revents => backlog # <<>>

BacklogOK ==
    /\ \A i \in 1 .. Len(backlog) : link[backlog[i]] = "backlog"
    /\ \A i, j \in 1 .. Len(backlog) : backlog[i] = backlog[j] => i = j

(* The types of the variables that Owned does not speak of.                *)
RestOK ==
    /\ pc \in {"loop", "trim", "setup", "poll", "serve", "drain", "exited"}
    /\ ahe_broker_stopping \in BOOLEAN
    /\ exit_status \in {"SUCCESS", "FAILURE"}
    /\ handled_clients \in Nat
    /\ poll_fds \in Seq(PollEntry)
    /\ listener_revents \in BOOLEAN
    /\ client_index \in Nat
    /\ memfds \in Nat
    /\ backlog \in Seq(Conns)
    /\ peer \in [Conns -> {"open", "closed", "reset"}]
    /\ requests \in [Conns -> Seq(Requests)]
    /\ replies \in [Conns -> Seq(Replies)]
    /\ sends \in [Conns -> Nat]
    /\ granted \in SUBSET Grant

BrokerInv ==
    /\ RestOK
    /\ Owned(clients, generation, fd_table, link, listener_fd)
    /\ CreatorOK(clients, generation, fd_table, granted)
    /\ LoopOK
    /\ BacklogOK

-----------------------------------------------------------------------------
(* What a closed descriptor looks like.                                    *)
LEMMA ClosedObject == Closed \in Objects /\ Closed.kind = "closed"
BY DEF Closed, Object, Objects

(* An empty queue is a queue of anything.                                  *)
LEMMA EmptyDomain == \A S : <<>> \in Seq(S)
OBVIOUS

(* The entries of a client array name descriptors.                         *)
LEMMA EntryFd ==
    ASSUME NEW cls \in Seq(Client)
    PROVE  \A i \in 1 .. Len(cls) : cls[i].fd \in Fd
<1> TAKE i \in 1 .. Len(cls)
<1>1. cls[i] \in Client
      OBVIOUS
<1> QED BY <1>1 DEF Client

(* The entry that is found at index j once entry i has been removed.       *)
Kept(cls, i, j) == IF j = i THEN Len(cls) ELSE j

(* Removing an entry keeps the others, each once.                          *)
LEMMA RemoveClientLemma ==
    ASSUME NEW cls \in Seq(Client), NEW i \in 1 .. Len(cls)
    PROVE  /\ RemoveClient(cls, i) \in Seq(Client)
           /\ Len(RemoveClient(cls, i)) = Len(cls) - 1
           /\ \A j \in 1 .. Len(cls) - 1 :
                  /\ Kept(cls, i, j) \in 1 .. Len(cls)
                  /\ Kept(cls, i, j) # i
                  /\ RemoveClient(cls, i)[j] = cls[Kept(cls, i, j)]
           /\ \A j, k \in 1 .. Len(cls) - 1 :
                  Kept(cls, i, j) = Kept(cls, i, k) => j = k
           /\ \A k \in 1 .. Len(cls) : k # i =>
                  \E j \in 1 .. Len(cls) - 1 : Kept(cls, i, j) = k
<1> DEFINE new == RemoveClient(cls, i)
           n == Len(cls) - 1
<1>1. n \in Nat
      OBVIOUS
<1>2. new = [j \in 1 .. n |-> IF j = i THEN cls[Len(cls)] ELSE cls[j]]
      BY DEF RemoveClient
<1>3. \A j \in 1 .. n : new[j] \in Client
      BY <1>1, <1>2
<1>4. new \in Seq(Client) /\ Len(new) = n
      BY <1>1, <1>2, <1>3
<1>5. \A j \in 1 .. n : /\ Kept(cls, i, j) \in 1 .. Len(cls)
                        /\ Kept(cls, i, j) # i
                        /\ new[j] = cls[Kept(cls, i, j)]
      BY <1>1, <1>2 DEF Kept
<1>6. \A j, k \in 1 .. n : Kept(cls, i, j) = Kept(cls, i, k) => j = k
      BY <1>1 DEF Kept
<1>7. \A k \in 1 .. Len(cls) : k # i => \E j \in 1 .. n : Kept(cls, i, j) = k
  <2> TAKE k \in 1 .. Len(cls)
  <2> HAVE k # i
  <2>1. CASE k = Len(cls)
    <3>1. i \in 1 .. n /\ Kept(cls, i, i) = k
          BY <2>1, <1>1 DEF Kept
    <3> QED BY <3>1
  <2>2. CASE k # Len(cls)
    <3>1. k \in 1 .. n /\ Kept(cls, i, k) = k
          BY <2>2, <1>1 DEF Kept
    <3> QED BY <3>1
  <2> QED BY <2>1, <2>2
<1> QED BY <1>4, <1>5, <1>6, <1>7

(* What comes before the removed entry stays where it is.                  *)
LEMMA RemovedBefore ==
    ASSUME NEW cls \in Seq(Client), NEW i \in 1 .. Len(cls)
    PROVE  \A j \in 1 .. i - 1 : RemoveClient(cls, i)[j] = cls[j]
BY DEF RemoveClient

(* A generation that is reset gives back its two memfds and nothing else.  *)
LEMMA ResetLemma ==
    ASSUME NEW cls, NEW gen, NEW table, NEW lnk, NEW lfd,
           Owned(cls, gen, table, lnk, lfd)
    PROVE  Owned(cls, ahe_generation_init, ahe_generation_reset(gen, table),
                 lnk, lfd)
<1> DEFINE new == ahe_generation_reset(gen, table)
<1> USE BrokerAssumption DEF Owned
<1>1. /\ new \in [Fd -> Objects]
      /\ \A f \in Fd : new[f] = IF f = gen.cache_fd \/ f = gen.lock_fd
                                THEN Closed ELSE table[f]
  <2>1. \A f \in Fd : f # -1
        BY DEF Fd
  <2>2. new = [f \in Fd |-> IF f \in {gen.cache_fd, gen.lock_fd} \ {-1}
                            THEN Closed ELSE table[f]]
        BY DEF ahe_generation_reset, CloseFds, GenerationFds
  <2> QED BY <2>1, <2>2, ClosedObject DEF TableOK
<1>2. TableOK(new)
      BY <1>1 DEF TableOK, Closed, Object
<1>3. \A f \in Fd : table[f].kind # "memfd" => new[f] = table[f]
      BY <1>1 DEF GenerationOK, ahe_generation_init, Fd
<1>4. ClientsOK(cls, new, lnk)
  <2>1. \A i \in 1 .. Len(cls) : cls[i].fd \in Fd
        BY EntryFd DEF ClientsOK
  <2>2. \A i \in 1 .. Len(cls) : new[cls[i].fd] = table[cls[i].fd]
        BY <2>1, <1>3 DEF ClientsOK
  <2>3. ClientsOK(cls, table, lnk)
        OBVIOUS
  <2> HIDE DEF new, Owned
  <2>4. \A i \in 1 .. Len(cls) :
            /\ new[cls[i].fd].kind = "socket"
            /\ new[cls[i].fd].id \in Conns
            /\ lnk[new[cls[i].fd].id] = "served"
        BY <2>2, <2>3 DEF ClientsOK
  <2>5. \A i, j \in 1 .. Len(cls) :
            new[cls[i].fd].id = new[cls[j].fd].id => i = j
        BY <2>2, <2>3 DEF ClientsOK
  <2>6. ASSUME NEW c \in Conns, lnk[c] = "served"
        PROVE  \E i \in 1 .. Len(cls) : new[cls[i].fd].id = c
    <3>1. PICK i \in 1 .. Len(cls) : table[cls[i].fd].id = c
          BY <2>3, <2>6 DEF ClientsOK
    <3>2. new[cls[i].fd].id = c
          BY <2>2, <3>1
    <3> QED BY <3>2
  <2> QED BY <2>3, <2>4, <2>5, <2>6 DEF ClientsOK
<1>5. GenerationOK(ahe_generation_init, new)
      BY DEF GenerationOK, ahe_generation_init, Generations
<1>6. ListenerOK(lfd, new)
      BY <1>3 DEF ListenerOK, Listener, Object
<1>7. NoLeak(cls, ahe_generation_init, new, lfd)
      BY <1>1 DEF NoLeak
<1> QED BY <1>2, <1>4, <1>5, <1>6, <1>7

(* ahe_broker_close_client, applied to what a handler left behind: the     *)
(* connection's descriptor is closed, the generation goes with its         *)
(* creator, and the rest is as well owned as before.                       *)
LEMMA CloseLemma ==
    ASSUME NEW cls, NEW gen, NEW table, NEW lnk, NEW lfd, NEW gr,
           Owned(cls, gen, table, lnk, lfd),
           NEW i \in 1 .. Len(cls),
           CreatorOK(cls, gen, table, gr) \/ IsCreator(gen, cls[i].fd)
    PROVE  LET fd == cls[i].fd
               gone == IsCreator(gen, fd)
               cls2 == RemoveClient(cls, i)
               gen2 == IF gone THEN ahe_generation_init ELSE gen
               table2 == CloseFds(IF gone THEN ahe_generation_reset(gen, table)
                                          ELSE table, {fd})
               lnk2 == [lnk EXCEPT ![table[fd].id] = "dropped"]
           IN  /\ Owned(cls2, gen2, table2, lnk2, lfd)
               /\ CreatorOK(cls2, gen2, table2, gr)
<1> DEFINE fd == cls[i].fd
           gone == IsCreator(gen, fd)
           cls2 == RemoveClient(cls, i)
           gen2 == IF gone THEN ahe_generation_init ELSE gen
           table1 == IF gone THEN ahe_generation_reset(gen, table) ELSE table
           table2 == CloseFds(table1, {fd})
           lnk2 == [lnk EXCEPT ![table[fd].id] = "dropped"]
<1>1. Owned(cls, gen2, table1, lnk, lfd)
      BY ResetLemma
<1> HIDE DEF gen2, table1
<1>2. cls \in Seq(Client) /\ lnk \in Links /\ table1 \in [Fd -> Objects]
      BY <1>1 DEF Owned, ClientsOK, TableOK
<1>3. /\ \A j \in 1 .. Len(cls) : cls[j].fd \in Fd
      /\ fd \in Fd
      BY <1>2, EntryFd
<1> DEFINE kept(j) == Kept(cls, i, j)
<1>4. /\ cls2 \in Seq(Client) /\ Len(cls2) = Len(cls) - 1
      /\ \A j \in 1 .. Len(cls2) :
            kept(j) \in 1 .. Len(cls) /\ kept(j) # i /\ cls2[j] = cls[kept(j)]
      /\ \A j, k \in 1 .. Len(cls2) : kept(j) = kept(k) => j = k
      /\ \A k \in 1 .. Len(cls) : k # i =>
            \E j \in 1 .. Len(cls2) : kept(j) = k
  <2>1. cls2 \in Seq(Client) /\ Len(cls2) = Len(cls) - 1
        BY <1>2, RemoveClientLemma
  <2>2. \A j \in 1 .. Len(cls) - 1 :
            kept(j) \in 1 .. Len(cls) /\ kept(j) # i /\ cls2[j] = cls[kept(j)]
        BY <1>2, RemoveClientLemma
  <2>3. \A j, k \in 1 .. Len(cls) - 1 : kept(j) = kept(k) => j = k
        BY <1>2, RemoveClientLemma
  <2>4. \A k \in 1 .. Len(cls) : k # i =>
            \E j \in 1 .. Len(cls) - 1 : kept(j) = k
        BY <1>2, RemoveClientLemma
  <2> HIDE DEF kept, cls2
  <2> QED BY <2>1, <2>2, <2>3, <2>4
<1> HIDE DEF kept
<1> HIDE DEF cls2
<1>5. /\ table2 \in [Fd -> Objects]
      /\ \A f \in Fd : table2[f] = IF f = fd THEN Closed ELSE table1[f]
  <2>1. table2 = [f \in Fd |-> IF f \in {fd} THEN Closed ELSE table1[f]]
        BY DEF CloseFds
  <2> QED BY <1>2, <2>1, ClosedObject
<1> HIDE DEF table2
<1>6. table1[fd] = table[fd]
  <2>1. table[fd].kind = "socket"
        BY DEF Owned, ClientsOK
  <2>2. CASE gone
    <3>1. table1[fd].kind = "socket"
          BY <1>1 DEF Owned, ClientsOK
    <3>2. table1[fd] = IF fd \in GenerationFds(gen) THEN Closed ELSE table[fd]
          BY <2>2, <1>3 DEF table1, ahe_generation_reset, CloseFds
    <3> QED BY <3>1, <3>2, ClosedObject
  <2> QED BY <2>2 DEF table1
<1>7. /\ lnk2 \in Links
      /\ \A c \in Conns : lnk2[c] = IF c = table[fd].id THEN "dropped"
                                                        ELSE lnk[c]
      BY <1>2 DEF Links
<1> HIDE DEF lnk2
<1>9. TableOK(table2)
      BY <1>1, <1>5, ClosedObject DEF Owned, TableOK
<1>10. ClientsOK(cls2, table2, lnk2)
  <2>1. \A k \in 1 .. Len(cls) : k # i => table2[cls[k].fd] = table1[cls[k].fd]
        BY <1>1, <1>3, <1>5 DEF Owned, ClientsOK
  <2>2. ASSUME NEW j \in 1 .. Len(cls2), NEW k \in 1 .. Len(cls2),
               \/ cls2[j].fd = cls2[k].fd
               \/ table2[cls2[j].fd].id = table2[cls2[k].fd].id
        PROVE  j = k
    <3>1. kept(j) \in 1 .. Len(cls) /\ kept(j) # i /\ cls2[j] = cls[kept(j)]
          BY <1>4
    <3>2. kept(k) \in 1 .. Len(cls) /\ kept(k) # i /\ cls2[k] = cls[kept(k)]
          BY <1>4
    <3>3. \/ cls[kept(j)].fd = cls[kept(k)].fd
          \/ table1[cls[kept(j)].fd].id = table1[cls[kept(k)].fd].id
          BY <2>1, <2>2, <3>1, <3>2
    <3>4. kept(j) = kept(k)
          BY <1>1, <3>1, <3>2, <3>3 DEF Owned, ClientsOK
    <3> QED BY <1>4, <3>4
  <2>3. ASSUME NEW j \in 1 .. Len(cls2)
        PROVE  /\ table2[cls2[j].fd].kind = "socket"
               /\ table2[cls2[j].fd].id \in Conns
               /\ lnk2[table2[cls2[j].fd].id] = "served"
    <3>1. kept(j) \in 1 .. Len(cls) /\ kept(j) # i
          BY <1>4
    <3>2. table2[cls2[j].fd] = table1[cls[kept(j)].fd]
          BY <1>4, <2>1
    <3>3. table1[cls[kept(j)].fd].id # table[fd].id
          BY <1>1, <1>6, <3>1 DEF Owned, ClientsOK
    <3>4. /\ table1[cls[kept(j)].fd].kind = "socket"
          /\ table1[cls[kept(j)].fd].id \in Conns
          /\ lnk[table1[cls[kept(j)].fd].id] = "served"
          BY <1>1, <3>1 DEF Owned, ClientsOK
    <3> QED BY <1>7, <3>2, <3>3, <3>4
  <2>5. ASSUME NEW c \in Conns, lnk2[c] = "served"
        PROVE  \E j \in 1 .. Len(cls2) : table2[cls2[j].fd].id = c
    <3>1. c # table[fd].id /\ lnk[c] = "served"
          BY <1>7, <2>5
    <3>2. PICK k \in 1 .. Len(cls) : table1[cls[k].fd].id = c
          BY <1>1, <3>1 DEF Owned, ClientsOK
    <3>3. k # i
          BY <1>6, <3>1, <3>2
    <3>4. PICK j \in 1 .. Len(cls2) : kept(j) = k
          BY <1>4, <3>3
    <3>5. cls2[j] = cls[k]
          BY <1>4, <3>4
    <3>6. table2[cls2[j].fd].id = c
          BY <2>1, <3>2, <3>3, <3>5
    <3> QED BY <3>6
  <2> QED BY <1>4, <1>7, <2>2, <2>3, <2>5 DEF ClientsOK
<1>11. table1[fd].kind = "socket"
      BY <1>1 DEF Owned, ClientsOK
<1>12. GenerationOK(gen2, table2)
      BY <1>1, <1>5, <1>11 DEF Owned, GenerationOK, Generations
<1>13. ListenerOK(lfd, table2)
      BY <1>1, <1>5, <1>11 DEF Owned, ListenerOK, Listener, Object
<1>14. NoLeak(cls2, gen2, table2, lfd)
  <2> SUFFICES ASSUME NEW f \in Fd, table2[f] # Closed
               PROVE  \/ \E j \in 1 .. Len(cls2) : cls2[j].fd = f
                      \/ f = gen2.cache_fd \/ f = gen2.lock_fd \/ f = lfd
        BY DEF NoLeak
  <2>1. f # fd /\ table1[f] # Closed
        BY <1>5
  <2>2. ASSUME NEW k \in 1 .. Len(cls), cls[k].fd = f
        PROVE  \E j \in 1 .. Len(cls2) : cls2[j].fd = f
    <3>1. PICK j \in 1 .. Len(cls2) : kept(j) = k
          BY <1>4, <2>1, <2>2
    <3> QED BY <1>4, <2>2, <3>1
  <2> QED BY <1>1, <2>1, <2>2 DEF Owned, NoLeak
<1>15. CreatorOK(cls2, gen2, table2, gr)
  <2>1. CASE gone
        BY <2>1 DEF CreatorOK, ahe_generation_init, gen2
  <2>2. CASE ~gone /\ gen.state # "INITIALIZING"
        BY <2>2 DEF CreatorOK, IsCreator, gen2
  <2>3. CASE ~gone /\ gen.state = "INITIALIZING"
    <3>1. CreatorOK(cls, gen, table, gr)
          BY <2>3
    <3>2. PICK k \in 1 .. Len(cls) :
            /\ cls[k].fd = gen.creator_fd
            /\ \E g \in gr :
                  /\ g.conn = table[cls[k].fd].id /\ g.type = "CREATE"
                  /\ g.cache = table[gen.cache_fd].id
                  /\ g.lock = table[gen.lock_fd].id
          BY <2>3, <3>1 DEF CreatorOK
    <3>3. k # i
          BY <2>3, <3>2 DEF IsCreator
    <3>4. PICK j \in 1 .. Len(cls2) : cls2[j] = cls[k]
          BY <1>4, <3>3
    <3>5. table2[cls[k].fd] = table[cls[k].fd]
          BY <1>1, <1>3, <1>5, <2>3, <3>3 DEF Owned, ClientsOK, table1
    <3>6. /\ table2[gen.cache_fd] = table[gen.cache_fd]
          /\ table2[gen.lock_fd] = table[gen.lock_fd]
          BY <1>1, <1>5, <1>11, <2>3
             DEF Owned, GenerationOK, Generations, table1, gen2
    <3> QED BY <2>3, <3>2, <3>4, <3>5, <3>6 DEF CreatorOK, gen2
  <2> QED BY <2>1, <2>2, <2>3
<1> QED
  <2>1. Owned(cls2, gen2, table2, lnk2, lfd)
        BY <1>9, <1>10, <1>12, <1>13, <1>14 DEF Owned
  <2> QED BY <2>1, <1>15 DEF cls2, gen2, table1, table2, lnk2

-----------------------------------------------------------------------------
(* The invariant holds when the loop is first entered.                     *)
LEMMA BrokerInit == Init => BrokerInv
<1> SUFFICES ASSUME Init PROVE BrokerInv
    OBVIOUS
<1> USE BrokerAssumption DEF Init
<1>1. RestOK
  <2>1. /\ requests \in [Conns -> Seq(Requests)]
        /\ replies \in [Conns -> Seq(Replies)]
        BY EmptyDomain
  <2>2. poll_fds \in Seq(PollEntry) /\ backlog \in Seq(Conns)
        BY EmptyDomain
  <2>3. /\ peer \in [Conns -> {"open", "closed", "reset"}]
        /\ sends \in [Conns -> Nat]
        OBVIOUS
  <2> QED BY <2>1, <2>2, <2>3 DEF RestOK
<1>2. 0 \in Fd /\ Closed \in Objects /\ Listener \in Objects
      BY ClosedObject DEF Fd, Listener, Object, Objects
<1>3. TableOK(fd_table)
      BY <1>2 DEF TableOK, Closed, Listener, Object
<1>4. ClientsOK(clients, fd_table, link)
      BY DEF ClientsOK, Links
<1>5. GenerationOK(generation, fd_table)
      BY DEF GenerationOK, ahe_generation_init, Generations
<1>6. ListenerOK(listener_fd, fd_table) /\
      NoLeak(clients, generation, fd_table, listener_fd)
      BY <1>2 DEF ListenerOK, NoLeak
<1>7. CreatorOK(clients, generation, fd_table, granted)
      BY DEF CreatorOK, ahe_generation_init
<1>8. LoopOK /\ BacklogOK
      BY DEF LoopOK, BacklogOK, PollAligned
<1> QED BY <1>1, <1>3, <1>4, <1>5, <1>6, <1>7, <1>8 DEF BrokerInv, Owned

(* Closing a client from the trim loop, the serve loop or a handler.       *)
LEMMA CloseStep ==
    ASSUME BrokerInv,
           NEW i \in 1 .. Len(clients), NEW cls, NEW gen, NEW table,
           Owned(cls, gen, table, link, listener_fd),
           Len(cls) = Len(clients),
           \A j \in 1 .. Len(clients) : cls[j].fd = clients[j].fd,
           table[clients[i].fd] = fd_table[clients[i].fd],
           \/ CreatorOK(cls, gen, table, granted')
           \/ IsCreator(gen, clients[i].fd),
           ahe_broker_close_client(i, cls, gen, table)
    PROVE  /\ Owned(clients', generation', fd_table', link', listener_fd)
           /\ CreatorOK(clients', generation', fd_table', granted')
           /\ Len(clients') = Len(clients) - 1
           /\ \A j \in 1 .. i - 1 : clients'[j].fd = clients[j].fd
           /\ \A d \in Conns : link[d] = "backlog" => link'[d] = "backlog"
           /\ requests' \in [Conns -> Seq(Requests)]
<1> DEFINE c == fd_table[clients[i].fd].id
<1>12. /\ clients' = RemoveClient(cls, i)
       /\ generation' = IF IsCreator(gen, clients[i].fd)
                        THEN ahe_generation_init ELSE gen
       /\ fd_table' = CloseFds(IF IsCreator(gen, clients[i].fd)
                               THEN ahe_generation_reset(gen, table)
                               ELSE table, {clients[i].fd})
       /\ link' = [link EXCEPT ![c] = "dropped"]
       /\ requests' = [requests EXCEPT ![c] = <<>>]
      BY DEF ahe_broker_close_client, Drop, Conn
<1>1. i \in 1 .. Len(cls) /\ cls[i].fd = clients[i].fd
      OBVIOUS
<1>2. /\ Owned(clients', generation', fd_table', link', listener_fd)
      /\ CreatorOK(clients', generation', fd_table', granted')
      BY <1>1, <1>12, CloseLemma
<1>3. cls \in Seq(Client) /\ clients \in Seq(Client)
      BY DEF BrokerInv, Owned, ClientsOK
<1>4. Len(clients') = Len(clients) - 1
      BY <1>1, <1>3, <1>12, RemoveClientLemma
<1>5. \A j \in 1 .. i - 1 : clients'[j] = cls[j]
      BY <1>1, <1>3, <1>12, RemovedBefore
<1>6. \A j \in 1 .. i - 1 : clients'[j].fd = clients[j].fd
      BY <1>3, <1>5
<1>7. /\ link \in Links
      /\ link[fd_table[clients[i].fd].id] = "served"
      BY DEF BrokerInv, Owned, ClientsOK
<1>8. \A d \in Conns : link[d] = "backlog" => link'[d] = "backlog"
      BY <1>7, <1>12 DEF Links
<1>9. requests' \in [Conns -> Seq(Requests)]
  <2>1. requests \in [Conns -> Seq(Requests)]
        BY DEF BrokerInv, RestOK
  <2> QED BY <1>12, <2>1, EmptyDomain
<1> QED BY <1>2, <1>4, <1>6, <1>8, <1>9

(* Marking a client as handled touches no descriptor.                      *)
LEMMA MarkLemma ==
    ASSUME NEW cls, NEW gen, NEW table, NEW lnk, NEW lfd,
           Owned(cls, gen, table, lnk, lfd),
           NEW i \in 1 .. Len(cls)
    PROVE  LET new == [cls EXCEPT ![i].handled_message = TRUE]
           IN  /\ Owned(new, gen, table, lnk, lfd)
               /\ Len(new) = Len(cls)
               /\ \A j \in 1 .. Len(cls) : new[j].fd = cls[j].fd
               /\ \A gr : CreatorOK(cls, gen, table, gr)
                             => CreatorOK(new, gen, table, gr)
<1> DEFINE new == [cls EXCEPT ![i].handled_message = TRUE]
<1>1. cls \in Seq(Client)
      BY DEF Owned, ClientsOK
<1>2. \A j \in 1 .. Len(cls) : cls[j] \in Client
      BY <1>1
<1>3. [cls[i] EXCEPT !.handled_message = TRUE] \in Client
      BY <1>2 DEF Client
<1> DEFINE marked == [cls[i] EXCEPT !.handled_message = TRUE]
<1>10. new = [cls EXCEPT ![i] = marked]
      OBVIOUS
<1>11. marked.fd = cls[i].fd
      BY <1>2 DEF Client
<1> HIDE DEF new, marked
<1>12. marked \in Client
      BY <1>3 DEF marked
<1>4. new \in Seq(Client) /\ Len(new) = Len(cls)
      BY <1>1, <1>12, <1>10
<1>13. \A j \in 1 .. Len(cls) : new[j] = IF j = i THEN marked ELSE cls[j]
      BY <1>1, <1>10
<1>5. \A j \in 1 .. Len(cls) : new[j].fd = cls[j].fd
      BY <1>11, <1>13
<1>6. ClientsOK(new, table, lnk) /\ NoLeak(new, gen, table, lfd)
  <2>1. ClientsOK(cls, table, lnk) /\ NoLeak(cls, gen, table, lfd)
        BY DEF Owned
  <2>2. /\ \A k, j \in 1 .. Len(new) : new[k].fd = new[j].fd => k = j
        /\ \A k, j \in 1 .. Len(new) :
              table[new[k].fd].id = table[new[j].fd].id => k = j
        BY <1>4, <1>5, <2>1 DEF ClientsOK
  <2>3. \A k \in 1 .. Len(new) :
            /\ table[new[k].fd].kind = "socket"
            /\ table[new[k].fd].id \in Conns
            /\ lnk[table[new[k].fd].id] = "served"
        BY <1>4, <1>5, <2>1 DEF ClientsOK
  <2>4. \A c \in Conns : lnk[c] = "served" =>
            \E k \in 1 .. Len(new) : table[new[k].fd].id = c
    <3> TAKE c \in Conns
    <3> HAVE lnk[c] = "served"
    <3>1. PICK k \in 1 .. Len(cls) : table[cls[k].fd].id = c
          BY <2>1 DEF ClientsOK
    <3> QED BY <1>4, <1>5, <3>1
  <2>5. NoLeak(new, gen, table, lfd)
    <3> SUFFICES ASSUME NEW f \in Fd, table[f] # Closed,
                        NEW k \in 1 .. Len(cls), cls[k].fd = f
                 PROVE  \E j \in 1 .. Len(new) : new[j].fd = f
        BY <2>1 DEF NoLeak
    <3> QED BY <1>4, <1>5
  <2>6. lnk \in Links
        BY <2>1 DEF ClientsOK
  <2> QED BY <1>4, <2>2, <2>3, <2>4, <2>5, <2>6 DEF ClientsOK
<1>7. \A gr : CreatorOK(cls, gen, table, gr) => CreatorOK(new, gen, table, gr)
      BY <1>4, <1>5 DEF CreatorOK
<1>8. Owned(new, gen, table, lnk, lfd)
      BY <1>6 DEF Owned
<1> QED BY <1>4, <1>5, <1>7, <1>8 DEF new

-----------------------------------------------------------------------------
(* Steps of the outer loop that touch neither clients nor descriptors.     *)
LEMMA LoopSteps ==
    ASSUME BrokerInv,
           \/ LoopStops \/ LoopContinues \/ TrimDone \/ SetupFails
           \/ AcceptFails \/ ahe_broker_handle_signal
    PROVE  BrokerInv'
<1> USE DEF kernelVars
<1>1. /\ UNCHANGED <<generation, clients, fd_table, link, listener_fd>>
      /\ UNCHANGED <<granted, backlog, handled_clients, poll_fds>>
      /\ UNCHANGED <<listener_revents, client_index, memfds, peer, requests>>
      /\ UNCHANGED <<replies, sends>>
      BY DEF LoopStops, LoopContinues, TrimDone, SetupFails, AcceptFails,
             ahe_broker_handle_signal
<1>2. /\ pc' \in {"loop", "trim", "setup", "poll", "serve", "drain", "exited"}
      /\ ahe_broker_stopping' \in BOOLEAN
      /\ exit_status' \in {"SUCCESS", "FAILURE"}
      /\ pc' \in {"trim", "poll", "serve"} => pc' = pc
      BY DEF LoopStops, LoopContinues, TrimDone, SetupFails, AcceptFails,
             ahe_broker_handle_signal, BrokerInv, RestOK
<1>3. RestOK'
      BY <1>1, <1>2 DEF BrokerInv, RestOK
<1>4. Owned(clients, generation, fd_table, link, listener_fd)'
      BY <1>1 DEF BrokerInv, Owned, TableOK, ClientsOK, GenerationOK,
                  ListenerOK, NoLeak
<1>5. CreatorOK(clients, generation, fd_table, granted)'
      BY <1>1 DEF BrokerInv, CreatorOK
<1>6. LoopOK'
      BY <1>1, <1>2 DEF BrokerInv, LoopOK, PollAligned
<1>7. BacklogOK'
      BY <1>1 DEF BrokerInv, BacklogOK
<1> QED BY <1>3, <1>4, <1>5, <1>6, <1>7 DEF BrokerInv

(* poll_fds is rebuilt from the client array.                              *)
LEMMA SetupStep == BrokerInv /\ Setup => BrokerInv'
<1> SUFFICES ASSUME BrokerInv, Setup PROVE BrokerInv'
    OBVIOUS
<1> USE DEF Setup, kernelVars
<1>1. /\ UNCHANGED <<generation, clients, fd_table, link, listener_fd>>
      /\ UNCHANGED <<granted, backlog, handled_clients, exit_status>>
      /\ UNCHANGED <<listener_revents, client_index, memfds, peer, requests>>
      /\ UNCHANGED <<replies, sends, ahe_broker_stopping>>
      OBVIOUS
<1>2. clients \in Seq(Client)
      BY DEF BrokerInv, Owned, ClientsOK
<1>3. \A i \in 1 .. Len(clients) :
          [fd |-> clients[i].fd, revents |-> {}] \in PollEntry
      BY <1>2, EntryFd DEF PollEntry
<1>4. /\ poll_fds' \in Seq(PollEntry) /\ Len(poll_fds') = Len(clients)
      /\ \A i \in 1 .. Len(clients) : poll_fds'[i].fd = clients[i].fd
  <2>1. Len(clients) \in Nat
        BY <1>2
  <2>2. poll_fds' = [i \in 1 .. Len(clients) |->
                        [fd |-> clients[i].fd, revents |-> {}]]
        OBVIOUS
  <2> QED BY <1>3, <2>1, <2>2
<1>5. RestOK'
      BY <1>1, <1>4 DEF BrokerInv, RestOK
<1>6. Owned(clients, generation, fd_table, link, listener_fd)'
      BY <1>1 DEF BrokerInv, Owned, TableOK, ClientsOK, GenerationOK,
                  ListenerOK, NoLeak
<1>7. CreatorOK(clients, generation, fd_table, granted)'
      BY <1>1 DEF BrokerInv, CreatorOK
<1>8. LoopOK' /\ BacklogOK'
      BY <1>1, <1>4 DEF BrokerInv, LoopOK, PollAligned, BacklogOK
<1> QED BY <1>5, <1>6, <1>7, <1>8 DEF BrokerInv

(* poll() fills in revents and serves from the last client down.           *)
LEMMA PollStep == BrokerInv /\ Poll => BrokerInv'
<1> SUFFICES ASSUME BrokerInv, Poll PROVE BrokerInv'
    OBVIOUS
<1> DEFINE entry(i) == [poll_fds[i] EXCEPT
                            !.revents = Revents(fd_table[poll_fds[i].fd].id)]
<1>1. /\ UNCHANGED <<generation, clients, fd_table, link, listener_fd>>
      /\ UNCHANGED <<granted, backlog, handled_clients, exit_status>>
      /\ UNCHANGED <<memfds, peer, requests>>
      /\ UNCHANGED <<replies, sends, ahe_broker_stopping>>
      /\ pc = "poll" /\ pc' = "serve"
      /\ poll_fds' = [i \in 1 .. Len(poll_fds) |-> entry(i)]
      /\ listener_revents' = (listener_fd # NoFd /\ backlog # <<>>)
      /\ client_index' = Len(clients)
      BY DEF Poll, kernelVars
<1>2. /\ poll_fds \in Seq(PollEntry)
      /\ Len(poll_fds) = Len(clients)
      /\ \A i \in 1 .. Len(clients) : clients[i].fd = poll_fds[i].fd
      BY <1>1 DEF BrokerInv, RestOK, LoopOK
<1>3. \A i \in 1 .. Len(poll_fds) :
          entry(i) \in PollEntry /\ entry(i).fd = poll_fds[i].fd
  <2> TAKE i \in 1 .. Len(poll_fds)
  <2>1. poll_fds[i] \in PollEntry
        BY <1>2
  <2>2. \A c : Revents(c) \in SUBSET {"IN", "HUP", "ERR"}
        BY DEF Revents
  <2> QED BY <2>1, <2>2 DEF PollEntry
<1> HIDE DEF entry
<1>4. /\ poll_fds' \in Seq(PollEntry) /\ Len(poll_fds') = Len(clients)
      /\ \A i \in 1 .. Len(clients) : poll_fds'[i].fd = clients[i].fd
  <2>1. Len(poll_fds) \in Nat
        BY <1>2
  <2>2. poll_fds' \in Seq(PollEntry) /\ Len(poll_fds') = Len(poll_fds)
        BY <1>1, <1>3, <2>1
  <2> QED BY <1>1, <1>2, <1>3, <2>2
<1>5. clients \in Seq(Client)
      BY DEF BrokerInv, Owned, ClientsOK
<1>6. RestOK'
  <2>1. listener_revents' \in BOOLEAN
        BY <1>1
  <2>2. client_index' \in Nat
        BY <1>1, <1>5
  <2> QED BY <1>1, <1>4, <2>1, <2>2 DEF BrokerInv, RestOK
<1>7. Owned(clients, generation, fd_table, link, listener_fd)'
      BY <1>1 DEF BrokerInv, Owned, TableOK, ClientsOK, GenerationOK,
                  ListenerOK, NoLeak
<1>8. CreatorOK(clients, generation, fd_table, granted)'
      BY <1>1 DEF BrokerInv, CreatorOK
<1>9. LoopOK' /\ BacklogOK'
  <2>1. /\ client_index' <= Len(clients')
        /\ client_index' <= Len(poll_fds')
        /\ \A i \in 1 .. client_index' : clients'[i].fd = poll_fds'[i].fd
        BY <1>1, <1>4, <1>5
  <2>2. listener_revents' => backlog' # <<>>
        BY <1>1
  <2>3. LoopOK'
        BY <1>1, <2>1, <2>2 DEF LoopOK, PollAligned
  <2> QED BY <1>1, <2>3 DEF BrokerInv, BacklogOK
<1> QED BY <1>6, <1>7, <1>8, <1>9 DEF BrokerInv

(* The quota is met: the listener and all who wait behind it go.           *)
LEMMA CloseListenerStep == BrokerInv /\ LoopClosesListener => BrokerInv'
<1> SUFFICES ASSUME BrokerInv, LoopClosesListener PROVE BrokerInv'
    OBVIOUS
<1>1. /\ UNCHANGED <<generation, clients, poll_fds, listener_revents, granted>>
      /\ UNCHANGED <<handled_clients, exit_status, memfds, peer>>
      /\ UNCHANGED <<replies, sends, ahe_broker_stopping>>
      /\ pc' = "trim" /\ client_index' = Len(clients)
      /\ listener_fd' = -1 /\ backlog' = <<>>
      /\ link' = [c \in Conns |-> IF link[c] = "backlog" THEN "dropped"
                                                         ELSE link[c]]
      /\ requests' = [c \in Conns |-> IF link[c] = "backlog" THEN <<>>
                                                             ELSE requests[c]]
      /\ fd_table' = CloseFds(fd_table, {listener_fd})
      BY DEF LoopClosesListener, CloseListener
<1>2. /\ TableOK(fd_table) /\ ClientsOK(clients, fd_table, link)
      /\ GenerationOK(generation, fd_table)
      /\ ListenerOK(listener_fd, fd_table)
      /\ NoLeak(clients, generation, fd_table, listener_fd)
      /\ CreatorOK(clients, generation, fd_table, granted)
      BY DEF BrokerInv, Owned
<1>3. clients \in Seq(Client) /\ link \in Links
      /\ \A i \in 1 .. Len(clients) : clients[i].fd \in Fd
      BY <1>2, EntryFd DEF ClientsOK
<1>4. /\ fd_table' \in [Fd -> Objects]
      /\ \A f \in Fd : fd_table'[f] = IF f = listener_fd THEN Closed
                                                         ELSE fd_table[f]
      BY <1>1, <1>2, ClosedObject DEF CloseFds, TableOK
<1>5. \A f \in Fd : fd_table[f].kind # "listener" => fd_table'[f] = fd_table[f]
      BY <1>2, <1>4 DEF ListenerOK, Listener, Object, Fd
<1>6. /\ link' \in Links
      /\ \A c \in Conns : link'[c] = "served" <=> link[c] = "served"
      BY <1>1, <1>3 DEF Links
<1>7. TableOK(fd_table')
      BY <1>2, <1>4, ClosedObject DEF TableOK
<1>8. \A i \in 1 .. Len(clients) :
          fd_table'[clients[i].fd] = fd_table[clients[i].fd]
      BY <1>2, <1>3, <1>5 DEF ClientsOK
<1>9. ClientsOK(clients', fd_table', link')
  <2>1. \A i, j \in 1 .. Len(clients) :
            /\ clients[i].fd = clients[j].fd => i = j
            /\ fd_table'[clients[i].fd].id = fd_table'[clients[j].fd].id => i = j
        BY <1>2, <1>8 DEF ClientsOK
  <2>2. \A i \in 1 .. Len(clients) :
            /\ fd_table'[clients[i].fd].kind = "socket"
            /\ fd_table'[clients[i].fd].id \in Conns
            /\ link'[fd_table'[clients[i].fd].id] = "served"
        BY <1>2, <1>6, <1>8 DEF ClientsOK
  <2>3. \A c \in Conns : link'[c] = "served" =>
            \E i \in 1 .. Len(clients) : fd_table'[clients[i].fd].id = c
        BY <1>2, <1>6, <1>8 DEF ClientsOK
  <2>4. ClientsOK(clients, fd_table', link')
        BY <1>3, <1>6, <2>1, <2>2, <2>3 DEF ClientsOK
  <2> QED BY <1>1, <2>4
<1>10. generation.state # "EMPTY" =>
          /\ fd_table'[generation.cache_fd] = fd_table[generation.cache_fd]
          /\ fd_table'[generation.lock_fd] = fd_table[generation.lock_fd]
      BY <1>2, <1>5 DEF GenerationOK, Generations
<1>11. GenerationOK(generation', fd_table')
      BY <1>1, <1>2, <1>10 DEF GenerationOK
<1>12. ListenerOK(listener_fd', fd_table')
      BY <1>1 DEF ListenerOK
<1>13. NoLeak(clients', generation', fd_table', listener_fd')
      BY <1>1, <1>2, <1>4 DEF NoLeak
<1>14. CreatorOK(clients', generation', fd_table', granted')
      BY <1>1, <1>2, <1>8, <1>10 DEF CreatorOK
<1>15. RestOK'
  <2>1. requests' \in [Conns -> Seq(Requests)]
        BY <1>1, EmptyDomain DEF BrokerInv, RestOK
  <2>2. client_index' \in Nat /\ backlog' \in Seq(Conns)
        BY <1>1, <1>3, EmptyDomain
  <2> QED BY <1>1, <2>1, <2>2 DEF BrokerInv, RestOK
<1>16. LoopOK' /\ BacklogOK'
      BY <1>1, <1>3 DEF LoopOK, PollAligned, BacklogOK
<1> QED BY <1>7, <1>9, <1>11, <1>12, <1>13, <1>14, <1>15, <1>16
        DEF BrokerInv, Owned

(* Connections that never sent a message are closed, from the last down.   *)
LEMMA TrimStep == BrokerInv /\ TrimClient => BrokerInv'
<1> SUFFICES ASSUME BrokerInv, TrimClient PROVE BrokerInv'
    OBVIOUS
<1>1. /\ UNCHANGED <<poll_fds, listener_revents, granted, listener_fd>>
      /\ UNCHANGED <<handled_clients, exit_status, memfds, peer, pc>>
      /\ UNCHANGED <<replies, sends, ahe_broker_stopping, backlog>>
      /\ pc = "trim" /\ client_index > 0 /\ client_index' = client_index - 1
      /\ \/ UNCHANGED <<clients, generation, fd_table, link, requests>>
         \/ ahe_broker_close_client(client_index, clients, generation,
                                    fd_table)
      BY DEF TrimClient
<1>2. /\ client_index \in Nat /\ client_index <= Len(clients)
      /\ clients \in Seq(Client) /\ backlog \in Seq(Conns)
      BY <1>1 DEF BrokerInv, RestOK, LoopOK, Owned, ClientsOK
<1>3. client_index \in 1 .. Len(clients)
      BY <1>1, <1>2
<1>4. /\ Owned(clients', generation', fd_table', link', listener_fd)
      /\ CreatorOK(clients', generation', fd_table', granted')
      /\ Len(clients') >= Len(clients) - 1
      /\ \A c \in Conns : link[c] = "backlog" => link'[c] = "backlog"
      /\ requests' \in [Conns -> Seq(Requests)]
  <2>1. CASE UNCHANGED <<clients, generation, fd_table, link, requests>>
        BY <1>1, <1>2, <2>1
           DEF BrokerInv, RestOK, Owned, TableOK, ClientsOK, GenerationOK,
               ListenerOK, NoLeak, CreatorOK
  <2>2. CASE ahe_broker_close_client(client_index, clients, generation,
                                     fd_table)
    <3>1. /\ Owned(clients, generation, fd_table, link, listener_fd)
          /\ CreatorOK(clients, generation, fd_table, granted')
          BY <1>1 DEF BrokerInv
    <3>2. /\ Owned(clients', generation', fd_table', link', listener_fd)
          /\ CreatorOK(clients', generation', fd_table', granted')
          /\ Len(clients') = Len(clients) - 1
          /\ \A c \in Conns : link[c] = "backlog" => link'[c] = "backlog"
          /\ requests' \in [Conns -> Seq(Requests)]
          BY <1>3, <2>2, <3>1, CloseStep
    <3> QED BY <1>2, <3>2
  <2> QED BY <1>1, <2>1, <2>2
<1>5. clients' \in Seq(Client)
      BY <1>4 DEF Owned, ClientsOK
<1>6. RestOK'
      BY <1>1, <1>2, <1>4 DEF BrokerInv, RestOK
<1>7. LoopOK'
      BY <1>1, <1>2, <1>4, <1>5 DEF LoopOK, PollAligned
<1>8. BacklogOK'
      BY <1>1, <1>2, <1>4 DEF BrokerInv, BacklogOK
<1> QED BY <1>1, <1>4, <1>6, <1>7, <1>8 DEF BrokerInv

-----------------------------------------------------------------------------
(* The end of the outer loop.                                              *)

(* Nobody is accepted.                                                     *)
LEMMA SkipAcceptStep == BrokerInv /\ SkipAccept => BrokerInv'
<1> SUFFICES ASSUME BrokerInv, SkipAccept PROVE BrokerInv'
    OBVIOUS
<1>1. /\ UNCHANGED <<generation, clients, fd_table, link, listener_fd>>
      /\ UNCHANGED <<granted, backlog, handled_clients, exit_status>>
      /\ UNCHANGED <<client_index, memfds, peer, requests>>
      /\ UNCHANGED <<replies, sends, ahe_broker_stopping>>
      /\ pc' = "loop" /\ poll_fds' = <<>> /\ listener_revents' = FALSE
      BY DEF SkipAccept, NextIteration
<1>2. RestOK'
      BY <1>1, EmptyDomain DEF BrokerInv, RestOK
<1>3. Owned(clients, generation, fd_table, link, listener_fd)'
      BY <1>1 DEF BrokerInv, Owned, TableOK, ClientsOK, GenerationOK,
                  ListenerOK, NoLeak
<1>4. CreatorOK(clients, generation, fd_table, granted)'
      BY <1>1 DEF BrokerInv, CreatorOK
<1>5. LoopOK' /\ BacklogOK'
      BY <1>1 DEF BrokerInv, LoopOK, PollAligned, BacklogOK
<1> QED BY <1>2, <1>3, <1>4, <1>5 DEF BrokerInv

(* The head of the backlog waits, and nobody else there is the same.       *)
LEMMA AcceptHead ==
    ASSUME BrokerInv, Accepting
    PROVE  /\ Head(backlog) \in Conns /\ link[Head(backlog)] = "backlog"
           /\ Tail(backlog) \in Seq(Conns)
           /\ \A i \in 1 .. Len(Tail(backlog)) :
                 /\ Tail(backlog)[i] \in Conns
                 /\ Tail(backlog)[i] # Head(backlog)
                 /\ link[Tail(backlog)[i]] = "backlog"
           /\ \A i, j \in 1 .. Len(Tail(backlog)) :
                 Tail(backlog)[i] = Tail(backlog)[j] => i = j
<1>1. backlog \in Seq(Conns) /\ backlog # <<>>
      BY DEF BrokerInv, RestOK, LoopOK, Accepting, AllServed
<1>2. /\ Head(backlog) = backlog[1] /\ Head(backlog) \in Conns
      /\ Tail(backlog) \in Seq(Conns)
      /\ Len(Tail(backlog)) = Len(backlog) - 1
      /\ \A i \in 1 .. Len(Tail(backlog)) : Tail(backlog)[i] = backlog[i + 1]
      /\ Len(backlog) \in Nat \ {0}
      BY <1>1
<1>3. /\ \A i \in 1 .. Len(backlog) : link[backlog[i]] = "backlog"
      /\ \A i, j \in 1 .. Len(backlog) : backlog[i] = backlog[j] => i = j
      BY DEF BrokerInv, BacklogOK
<1>4. \A i \in 1 .. Len(Tail(backlog)) :
          /\ i + 1 \in 1 .. Len(backlog) /\ i + 1 # 1
          /\ backlog[i + 1] \in Conns
      BY <1>1, <1>2
<1>5. 1 \in 1 .. Len(backlog)
      BY <1>2
<1>6. \A i \in 1 .. Len(Tail(backlog)) :
          /\ Tail(backlog)[i] \in Conns
          /\ Tail(backlog)[i] # Head(backlog)
          /\ link[Tail(backlog)[i]] = "backlog"
      BY <1>2, <1>3, <1>4, <1>5
<1>7. \A i, j \in 1 .. Len(Tail(backlog)) :
          Tail(backlog)[i] = Tail(backlog)[j] => i = j
  <2> TAKE i, j \in 1 .. Len(Tail(backlog))
  <2> HAVE Tail(backlog)[i] = Tail(backlog)[j]
  <2>1. i + 1 = j + 1
        BY <1>2, <1>3, <1>4
  <2> QED BY <2>1, <1>2
<1> QED BY <1>2, <1>3, <1>5, <1>6, <1>7

(* The head of the backlog gets the lowest free descriptor and an entry at *)
(* the end of the client array.                                            *)
LEMMA AddClientStep == BrokerInv /\ ahe_broker_add_client => BrokerInv'
<1> SUFFICES ASSUME BrokerInv, ahe_broker_add_client PROVE BrokerInv'
    OBVIOUS
<1> DEFINE c == Head(backlog)
<1>1. PICK f \in Fd :
          /\ fd_table[f] = Closed
          /\ fd_table' = [fd_table EXCEPT ![f] = Socket(c)]
          /\ clients' = Append(clients, [fd |-> f, handled_message |-> FALSE])
      BY DEF ahe_broker_add_client, IsNextFd, FreeFds
<1>2. /\ UNCHANGED <<generation, listener_fd, granted, handled_clients>>
      /\ UNCHANGED <<exit_status, client_index, memfds, peer, requests>>
      /\ UNCHANGED <<replies, sends, ahe_broker_stopping>>
      /\ pc' = "loop" /\ poll_fds' = <<>> /\ listener_revents' = FALSE
      /\ backlog' = Tail(backlog)
      /\ link' = [link EXCEPT ![c] = "served"]
      BY DEF ahe_broker_add_client, NextIteration
<1>3. /\ c \in Conns /\ link[c] = "backlog"
      /\ Tail(backlog) \in Seq(Conns)
      /\ \A i \in 1 .. Len(Tail(backlog)) :
            /\ Tail(backlog)[i] \in Conns /\ Tail(backlog)[i] # c
            /\ link[Tail(backlog)[i]] = "backlog"
      /\ \A i, j \in 1 .. Len(Tail(backlog)) :
            Tail(backlog)[i] = Tail(backlog)[j] => i = j
      BY AcceptHead DEF ahe_broker_add_client
<1> HIDE DEF c
<1>4. /\ TableOK(fd_table) /\ ClientsOK(clients, fd_table, link)
      /\ GenerationOK(generation, fd_table)
      /\ ListenerOK(listener_fd, fd_table)
      /\ NoLeak(clients, generation, fd_table, listener_fd)
      /\ CreatorOK(clients, generation, fd_table, granted)
      BY DEF BrokerInv, Owned
<1>5. clients \in Seq(Client) /\ link \in Links
      /\ \A i \in 1 .. Len(clients) : clients[i].fd \in Fd
      BY <1>4, EntryFd DEF ClientsOK
<1>6. /\ fd_table' \in [Fd -> Objects]
      /\ \A g \in Fd : fd_table'[g] = IF g = f THEN Socket(c) ELSE fd_table[g]
      BY <1>1, <1>3, <1>4 DEF TableOK, Socket, Object, Objects
<1>7. Socket(c).kind = "socket" /\ Socket(c).id = c /\ Closed.kind = "closed"
      BY DEF Socket, Object, Closed
<1>8. /\ link' \in Links
      /\ \A d \in Conns : link'[d] = IF d = c THEN "served" ELSE link[d]
      BY <1>2, <1>3, <1>5 DEF Links
<1>9. \A g \in Fd : fd_table[g].kind # "closed" => fd_table'[g] = fd_table[g]
      BY <1>1, <1>6, <1>7
<1>10. /\ clients' \in Seq(Client) /\ Len(clients') = Len(clients) + 1
       /\ clients'[Len(clients) + 1].fd = f
       /\ \A i \in 1 .. Len(clients) : clients'[i] = clients[i]
  <2>1. [fd |-> f, handled_message |-> FALSE] \in Client
        BY DEF Client
  <2> QED BY <1>1, <1>5, <2>1
<1>11. \A i \in 1 .. Len(clients) :
          /\ clients[i].fd # f
          /\ fd_table'[clients[i].fd] = fd_table[clients[i].fd]
          /\ fd_table[clients[i].fd].id # c
      BY <1>1, <1>3, <1>4, <1>5, <1>7, <1>9 DEF ClientsOK
<1>12. \A i \in 1 .. Len(clients') :
          \/ i \in 1 .. Len(clients)
          \/ i = Len(clients) + 1 /\ clients'[i].fd = f
      BY <1>5, <1>10
<1>13. fd_table'[f].kind = "socket" /\ fd_table'[f].id = c
      BY <1>6, <1>7
<1>14. ClientsOK(clients', fd_table', link')
  <2>1. ASSUME NEW i \in 1 .. Len(clients'), NEW j \in 1 .. Len(clients'),
               \/ clients'[i].fd = clients'[j].fd
               \/ fd_table'[clients'[i].fd].id = fd_table'[clients'[j].fd].id
        PROVE  i = j
    <3>1. CASE i \in 1 .. Len(clients) /\ j \in 1 .. Len(clients)
          BY <1>4, <1>10, <1>11, <2>1, <3>1 DEF ClientsOK
    <3>2. CASE i \in 1 .. Len(clients) /\ j = Len(clients) + 1
          BY <1>10, <1>11, <1>13, <2>1, <3>2
    <3>3. CASE j \in 1 .. Len(clients) /\ i = Len(clients) + 1
          BY <1>10, <1>11, <1>13, <2>1, <3>3
    <3>4. CASE i = Len(clients) + 1 /\ j = Len(clients) + 1
          BY <3>4
    <3> QED BY <1>12, <3>1, <3>2, <3>3, <3>4
  <2>2. ASSUME NEW i \in 1 .. Len(clients')
        PROVE  /\ fd_table'[clients'[i].fd].kind = "socket"
               /\ fd_table'[clients'[i].fd].id \in Conns
               /\ link'[fd_table'[clients'[i].fd].id] = "served"
    <3>1. CASE i \in 1 .. Len(clients)
          BY <1>4, <1>8, <1>10, <1>11, <3>1 DEF ClientsOK
    <3>2. CASE i = Len(clients) + 1
          BY <1>3, <1>8, <1>10, <1>13, <3>2
    <3> QED BY <1>12, <3>1, <3>2
  <2>3. ASSUME NEW d \in Conns, link'[d] = "served"
        PROVE  \E i \in 1 .. Len(clients') : fd_table'[clients'[i].fd].id = d
    <3>1. CASE d = c
      <4>1. Len(clients) + 1 \in 1 .. Len(clients')
            BY <1>5, <1>10
      <4> QED BY <1>10, <1>13, <3>1, <4>1
    <3>2. CASE d # c
      <4>1. PICK i \in 1 .. Len(clients) : fd_table[clients[i].fd].id = d
            BY <1>4, <1>8, <2>3, <3>2 DEF ClientsOK
      <4>2. i \in 1 .. Len(clients')
            BY <1>5, <1>10
      <4> QED BY <1>10, <1>11, <4>1, <4>2
    <3> QED BY <3>1, <3>2
  <2> QED BY <1>8, <1>10, <2>1, <2>2, <2>3 DEF ClientsOK
<1>15. generation.state # "EMPTY" =>
          /\ fd_table'[generation.cache_fd] = fd_table[generation.cache_fd]
          /\ fd_table'[generation.lock_fd] = fd_table[generation.lock_fd]
      BY <1>4, <1>9 DEF GenerationOK, Generations
<1>16. GenerationOK(generation', fd_table')
      BY <1>2, <1>4, <1>15 DEF GenerationOK
<1>17. ListenerOK(listener_fd', fd_table')
      BY <1>2, <1>4, <1>9 DEF ListenerOK, Listener, Object
<1>18. NoLeak(clients', generation', fd_table', listener_fd')
  <2> SUFFICES ASSUME NEW g \in Fd, fd_table'[g] # Closed
               PROVE  \/ \E i \in 1 .. Len(clients') : clients'[i].fd = g
                      \/ g = generation.cache_fd \/ g = generation.lock_fd
                      \/ g = listener_fd
        BY <1>2 DEF NoLeak
  <2>1. CASE g = f
    <3>1. Len(clients) + 1 \in 1 .. Len(clients')
          BY <1>5, <1>10
    <3> QED BY <1>10, <2>1, <3>1
  <2>2. CASE g # f
    <3>1. ASSUME NEW i \in 1 .. Len(clients), clients[i].fd = g
          PROVE  \E j \in 1 .. Len(clients') : clients'[j].fd = g
      <4>1. i \in 1 .. Len(clients')
            BY <1>5, <1>10
      <4> QED BY <1>10, <3>1, <4>1
    <3> QED BY <1>4, <1>6, <2>2, <3>1 DEF NoLeak
  <2> QED BY <2>1, <2>2
<1>19. CreatorOK(clients', generation', fd_table', granted')
  <2>1. CASE generation.state # "INITIALIZING"
        BY <1>2, <1>4, <2>1 DEF CreatorOK
  <2>2. CASE generation.state = "INITIALIZING"
    <3>1. PICK i \in 1 .. Len(clients) :
            /\ clients[i].fd = generation.creator_fd
            /\ \E g \in granted :
                  /\ g.conn = fd_table[clients[i].fd].id /\ g.type = "CREATE"
                  /\ g.cache = fd_table[generation.cache_fd].id
                  /\ g.lock = fd_table[generation.lock_fd].id
          BY <1>4, <2>2 DEF CreatorOK
    <3>2. i \in 1 .. Len(clients')
          BY <1>5, <1>10
    <3> QED BY <1>2, <1>10, <1>11, <1>15, <2>2, <3>1, <3>2 DEF CreatorOK
  <2> QED BY <2>1, <2>2
<1>20. TableOK(fd_table')
      BY <1>4, <1>6, <1>7 DEF TableOK
<1>21. RestOK'
      BY <1>2, <1>3, EmptyDomain DEF BrokerInv, RestOK
<1>22. LoopOK' /\ BacklogOK'
      BY <1>2, <1>3, <1>8 DEF LoopOK, PollAligned, BacklogOK
<1> QED BY <1>14, <1>16, <1>17, <1>18, <1>19, <1>20, <1>21, <1>22
        DEF BrokerInv, Owned

(* A connection of another user is closed before it gets an entry.         *)
LEMMA RejectStep == BrokerInv /\ RejectForeign => BrokerInv'
<1> SUFFICES ASSUME BrokerInv, RejectForeign PROVE BrokerInv'
    OBVIOUS
<1> DEFINE c == Head(backlog)
<1>1. /\ UNCHANGED <<generation, listener_fd, granted, handled_clients>>
      /\ UNCHANGED <<exit_status, client_index, memfds, peer, clients>>
      /\ UNCHANGED <<replies, sends, ahe_broker_stopping, fd_table>>
      /\ pc' = "loop" /\ poll_fds' = <<>> /\ listener_revents' = FALSE
      /\ backlog' = Tail(backlog)
      /\ link' = [link EXCEPT ![c] = "dropped"]
      /\ requests' = [requests EXCEPT ![c] = <<>>]
      BY DEF RejectForeign, NextIteration, Drop
<1>2. /\ c \in Conns /\ link[c] = "backlog"
      /\ Tail(backlog) \in Seq(Conns)
      /\ \A i \in 1 .. Len(Tail(backlog)) :
            /\ Tail(backlog)[i] \in Conns /\ Tail(backlog)[i] # c
            /\ link[Tail(backlog)[i]] = "backlog"
      /\ \A i, j \in 1 .. Len(Tail(backlog)) :
            Tail(backlog)[i] = Tail(backlog)[j] => i = j
      BY AcceptHead DEF RejectForeign
<1> HIDE DEF c
<1>3. ClientsOK(clients, fd_table, link)
      BY DEF BrokerInv, Owned
<1>4. /\ link' \in Links
      /\ \A d \in Conns : link'[d] = IF d = c THEN "dropped" ELSE link[d]
      BY <1>1, <1>2, <1>3 DEF Links, ClientsOK
<1>5. ClientsOK(clients, fd_table, link')
  <2>1. \A i \in 1 .. Len(clients) :
            link'[fd_table[clients[i].fd].id] = "served"
        BY <1>2, <1>3, <1>4 DEF ClientsOK
  <2>2. \A d \in Conns : link'[d] = "served" =>
            \E i \in 1 .. Len(clients) : fd_table[clients[i].fd].id = d
        BY <1>3, <1>4 DEF ClientsOK
  <2> QED BY <1>3, <1>4, <2>1, <2>2 DEF ClientsOK
<1>6. Owned(clients, generation, fd_table, link', listener_fd)
      BY <1>5 DEF BrokerInv, Owned
<1>7. Owned(clients', generation', fd_table', link', listener_fd')
      BY <1>1, <1>6
<1>8. CreatorOK(clients, generation, fd_table, granted)'
      BY <1>1 DEF BrokerInv, CreatorOK
<1>9. requests' \in [Conns -> Seq(Requests)]
      BY <1>1, EmptyDomain DEF BrokerInv, RestOK
<1>10. RestOK'
      BY <1>1, <1>2, <1>9, EmptyDomain DEF BrokerInv, RestOK
<1>11. LoopOK' /\ BacklogOK'
      BY <1>1, <1>2, <1>4 DEF LoopOK, PollAligned, BacklogOK
<1> QED BY <1>7, <1>8, <1>10, <1>11 DEF BrokerInv

(* main() ends, or the kernel ends it: nothing stays open.                 *)
LEMMA ExitStep == BrokerInv /\ (Shutdown \/ Kill) => BrokerInv'
<1> SUFFICES ASSUME BrokerInv, Shutdown \/ Kill PROVE BrokerInv'
    OBVIOUS
<1>1. /\ UNCHANGED <<handled_clients, memfds, peer, replies, sends, granted>>
      /\ UNCHANGED ahe_broker_stopping
      /\ exit_status' \in {exit_status, "FAILURE"}
      /\ pc' = "exited" /\ clients' = <<>> /\ generation' = ahe_generation_init
      /\ listener_fd' = -1 /\ backlog' = <<>> /\ poll_fds' = <<>>
      /\ listener_revents' = FALSE /\ client_index' = 0
      /\ link' = [c \in Conns |-> IF link[c] = "new" THEN "new" ELSE "dropped"]
      /\ requests' = [c \in Conns |-> <<>>]
      BY DEF Shutdown, Kill, Disconnect
<1>2. fd_table' = [f \in Fd |-> Closed]
  <2>1. CASE Kill
        BY <2>1 DEF Kill, CloseFds
  <2>2. CASE Shutdown
    <3>1. NoLeak(clients, generation, fd_table, listener_fd)
          BY DEF BrokerInv, Owned
    <3> DEFINE table == ahe_generation_reset(generation, fd_table)
               fds == ClientFds(clients) \cup {listener_fd}
    <3>2. \A f \in Fd : f # -1
          BY DEF Fd
    <3>3. \A f \in Fd : f \in fds \/ table[f] = Closed
      <4> TAKE f \in Fd
      <4>1. CASE fd_table[f] = Closed
            BY <4>1 DEF ahe_generation_reset, CloseFds
      <4>2. CASE f = generation.cache_fd \/ f = generation.lock_fd
            BY <4>2, <3>2 DEF ahe_generation_reset, CloseFds, GenerationFds
      <4>3. CASE f = listener_fd \/ \E i \in 1 .. Len(clients) : clients[i].fd = f
            BY <4>3 DEF ClientFds
      <4> QED BY <3>1, <4>1, <4>2, <4>3 DEF NoLeak
    <3>4. fd_table' = CloseFds(table, fds)
          BY <2>2 DEF Shutdown
    <3> HIDE DEF table, fds
    <3> QED BY <3>3, <3>4 DEF CloseFds
  <2> QED BY <2>1, <2>2
<1>3. TableOK(fd_table')
      BY <1>2, ClosedObject DEF TableOK
<1>4. ClientsOK(clients', fd_table', link')
      BY <1>1, EmptyDomain DEF ClientsOK, Links, BrokerInv, Owned
<1>5. GenerationOK(generation', fd_table')
      BY <1>1, BrokerAssumption
         DEF GenerationOK, ahe_generation_init, Generations
<1>6. ListenerOK(listener_fd', fd_table')
      /\ NoLeak(clients', generation', fd_table', listener_fd')
      BY <1>1, <1>2 DEF ListenerOK, NoLeak
<1>7. CreatorOK(clients', generation', fd_table', granted')
      BY <1>1 DEF CreatorOK, ahe_generation_init
<1>8. requests' \in [Conns -> Seq(Requests)]
      BY <1>1, EmptyDomain
<1>9. RestOK'
      BY <1>1, <1>8, EmptyDomain DEF BrokerInv, RestOK
<1>10. LoopOK' /\ BacklogOK'
      BY <1>1 DEF LoopOK, PollAligned, BacklogOK
<1> QED BY <1>3, <1>4, <1>5, <1>6, <1>7, <1>9, <1>10 DEF BrokerInv, Owned

(* A new connection waits at the end of the backlog.                       *)
LEMMA ConnectStep ==
    ASSUME BrokerInv, NEW c \in Conns, PeerConnect(c) PROVE BrokerInv'
<1>1. /\ UNCHANGED <<generation, clients, fd_table, listener_fd, requests>>
      /\ UNCHANGED <<granted, handled_clients, exit_status, poll_fds>>
      /\ UNCHANGED <<listener_revents, client_index, memfds, peer, pc>>
      /\ UNCHANGED <<replies, sends, ahe_broker_stopping>>
      /\ link[c] = "new" /\ link' = [link EXCEPT ![c] = "backlog"]
      /\ backlog' = Append(backlog, c)
      BY DEF PeerConnect, brokerVars
<1>2. ClientsOK(clients, fd_table, link) /\ backlog \in Seq(Conns)
      BY DEF BrokerInv, Owned, RestOK
<1>3. /\ link' \in Links
      /\ \A d \in Conns : link'[d] = IF d = c THEN "backlog" ELSE link[d]
      BY <1>1, <1>2 DEF Links, ClientsOK
<1>4. ClientsOK(clients, fd_table, link')
  <2>1. \A i \in 1 .. Len(clients) :
            link'[fd_table[clients[i].fd].id] = "served"
        BY <1>1, <1>2, <1>3 DEF ClientsOK
  <2>2. \A d \in Conns : link'[d] = "served" =>
            \E i \in 1 .. Len(clients) : fd_table[clients[i].fd].id = d
        BY <1>2, <1>3 DEF ClientsOK
  <2> QED BY <1>2, <1>3, <2>1, <2>2 DEF ClientsOK
<1>5. Owned(clients, generation, fd_table, link', listener_fd)
      BY <1>4 DEF BrokerInv, Owned
<1>6. Owned(clients', generation', fd_table', link', listener_fd')
      BY <1>1, <1>5
<1>7. CreatorOK(clients, generation, fd_table, granted)'
      BY <1>1 DEF BrokerInv, CreatorOK
<1>8. /\ backlog' \in Seq(Conns) /\ Len(backlog') = Len(backlog) + 1
      /\ backlog' # <<>> /\ backlog'[Len(backlog) + 1] = c
      /\ \A i \in 1 .. Len(backlog) : backlog'[i] = backlog[i]
      /\ \A i \in 1 .. Len(backlog') :
            i \in 1 .. Len(backlog) \/ i = Len(backlog) + 1
      BY <1>1, <1>2
<1>9. RestOK'
      BY <1>1, <1>8 DEF BrokerInv, RestOK
<1>10. LoopOK'
      BY <1>1, <1>8 DEF BrokerInv, LoopOK, PollAligned
<1>11. BacklogOK'
  <2>1. \A i \in 1 .. Len(backlog) : backlog[i] \in Conns /\ backlog[i] # c
        BY <1>1, <1>2 DEF BrokerInv, BacklogOK
  <2>2. \A i \in 1 .. Len(backlog') : link'[backlog'[i]] = "backlog"
        BY <1>3, <1>8, <2>1 DEF BrokerInv, BacklogOK
  <2>3. \A i, j \in 1 .. Len(backlog') : backlog'[i] = backlog'[j] => i = j
        BY <1>8, <2>1 DEF BrokerInv, BacklogOK
  <2> QED BY <2>2, <2>3 DEF BacklogOK
<1> QED BY <1>6, <1>7, <1>9, <1>10, <1>11 DEF BrokerInv

(* What peers do with an established connection is in the queues only.     *)
LEMMA PeerSteps ==
    ASSUME BrokerInv, NEW c \in Conns,
           (\E r \in Requests : PeerSend(c, r)) \/ PeerReceive(c)
               \/ PeerClose(c)
    PROVE  BrokerInv'
<1>1. /\ UNCHANGED <<generation, clients, fd_table, link, listener_fd>>
      /\ UNCHANGED <<granted, handled_clients, exit_status, poll_fds>>
      /\ UNCHANGED <<listener_revents, client_index, memfds, pc, backlog>>
      /\ UNCHANGED ahe_broker_stopping
      BY DEF PeerSend, PeerReceive, PeerClose, brokerVars
<1>2. /\ requests \in [Conns -> Seq(Requests)]
      /\ replies \in [Conns -> Seq(Replies)]
      /\ sends \in [Conns -> Nat]
      /\ peer \in [Conns -> {"open", "closed", "reset"}]
      BY DEF BrokerInv, RestOK
<1>3. /\ requests' \in [Conns -> Seq(Requests)]
      /\ replies' \in [Conns -> Seq(Replies)]
      /\ sends' \in [Conns -> Nat]
      /\ peer' \in [Conns -> {"open", "closed", "reset"}]
  <2>1. ASSUME NEW r \in Requests, PeerSend(c, r)
        PROVE  requests' \in [Conns -> Seq(Requests)] /\ sends' \in [Conns -> Nat]
    <3>1. Append(requests[c], r) \in Seq(Requests)
          BY <1>2
    <3> QED BY <1>2, <2>1, <3>1 DEF PeerSend
  <2>2. ASSUME PeerReceive(c)
        PROVE  replies' \in [Conns -> Seq(Replies)]
    <3>1. Tail(replies[c]) \in Seq(Replies)
          BY <1>2, <2>2 DEF PeerReceive
    <3> QED BY <1>2, <2>2, <3>1 DEF PeerReceive
  <2>3. ASSUME PeerClose(c)
        PROVE  /\ replies' \in [Conns -> Seq(Replies)]
               /\ peer' \in [Conns -> {"open", "closed", "reset"}]
        BY <1>2, <2>3, EmptyDomain DEF PeerClose
  <2>4. /\ \A r \in Requests : PeerSend(c, r) => UNCHANGED <<replies, peer>>
        /\ PeerReceive(c) => UNCHANGED <<requests, sends, peer>>
        /\ PeerClose(c) => UNCHANGED <<requests, sends>>
        BY DEF PeerSend, PeerReceive, PeerClose
  <2> QED BY <1>2, <2>1, <2>2, <2>3, <2>4
<1>4. RestOK'
      BY <1>1, <1>3 DEF BrokerInv, RestOK
<1>5. Owned(clients, generation, fd_table, link, listener_fd)'
      BY <1>1 DEF BrokerInv, Owned, TableOK, ClientsOK, GenerationOK,
                  ListenerOK, NoLeak
<1>6. CreatorOK(clients, generation, fd_table, granted)'
      BY <1>1 DEF BrokerInv, CreatorOK
<1>7. LoopOK' /\ BacklogOK'
      BY <1>1 DEF BrokerInv, LoopOK, PollAligned, BacklogOK
<1> QED BY <1>4, <1>5, <1>6, <1>7 DEF BrokerInv

-----------------------------------------------------------------------------
(* One client's turn.                                                      *)

(* The client whose turn it is has an entry, a descriptor and a peer.      *)
LEMMA ServingClient ==
    ASSUME BrokerInv, Serving
    PROVE  /\ client_index \in 1 .. Len(clients)
           /\ clients \in Seq(Client)
           /\ ClientFd \in Fd
           /\ Conn(client_index) \in Conns
           /\ fd_table[ClientFd].kind = "socket"
           /\ \A i \in 1 .. client_index : clients[i].fd = poll_fds[i].fd
           /\ client_index <= Len(poll_fds)
<1>1. /\ client_index \in Nat /\ client_index > 0 /\ client_index <= Len(clients)
      /\ clients \in Seq(Client) /\ client_index <= Len(poll_fds)
      /\ \A i \in 1 .. client_index : clients[i].fd = poll_fds[i].fd
      BY DEF BrokerInv, RestOK, LoopOK, PollAligned, Owned, ClientsOK, Serving
<1>2. client_index \in 1 .. Len(clients)
      BY <1>1
<1>3. ClientFd \in Fd
      BY <1>1, <1>2, EntryFd DEF ClientFd
<1>4. Conn(client_index) \in Conns /\ fd_table[ClientFd].kind = "socket"
      BY <1>2 DEF BrokerInv, Owned, ClientsOK, Conn, ClientFd
<1> QED BY <1>1, <1>2, <1>3, <1>4

(* A turn that leaves the clients before it alone, and everything owned,   *)
(* preserves the invariant.                                                *)
LEMMA TurnStep ==
    ASSUME BrokerInv, Serving, NextClient,
           Owned(clients', generation', fd_table', link', listener_fd),
           CreatorOK(clients', generation', fd_table', granted'),
           Len(clients') >= Len(clients) - 1,
           \A j \in 1 .. client_index - 1 : clients'[j].fd = clients[j].fd,
           \A d \in Conns : link[d] = "backlog" => link'[d] = "backlog",
           requests' \in [Conns -> Seq(Requests)],
           replies' \in [Conns -> Seq(Replies)],
           granted' \in SUBSET Grant,
           handled_clients' \in Nat, memfds' \in Nat
    PROVE  BrokerInv'
<1>1. /\ client_index' = client_index - 1
      /\ UNCHANGED <<pc, ahe_broker_stopping, exit_status, listener_fd>>
      /\ UNCHANGED <<poll_fds, listener_revents, backlog, peer, sends>>
      BY DEF NextClient
<1>2. /\ client_index \in 1 .. Len(clients) /\ client_index <= Len(poll_fds)
      /\ \A i \in 1 .. client_index : clients[i].fd = poll_fds[i].fd
      /\ clients \in Seq(Client)
      BY ServingClient
<1>3. /\ client_index' \in Nat /\ client_index' <= Len(clients')
      /\ client_index' <= Len(poll_fds')
      /\ \A i \in 1 .. client_index' : clients'[i].fd = poll_fds'[i].fd
  <2>1. clients' \in Seq(Client) /\ poll_fds \in Seq(PollEntry)
        BY DEF BrokerInv, RestOK, Owned, ClientsOK
  <2>2. /\ Len(clients') \in Nat /\ Len(clients) \in Nat
        /\ Len(poll_fds) \in Nat
        BY <1>2, <2>1
  <2> QED BY <1>1, <1>2, <2>2
<1>4. backlog \in Seq(Conns)
      BY DEF BrokerInv, RestOK
<1>5. RestOK'
      BY <1>1, <1>3 DEF BrokerInv, RestOK
<1>6. LoopOK'
      BY <1>1, <1>3 DEF BrokerInv, LoopOK, PollAligned, Serving
<1>7. BacklogOK'
  <2>1. \A i \in 1 .. Len(backlog) : backlog[i] \in Conns
        BY <1>4
  <2>2. \A i \in 1 .. Len(backlog) : link'[backlog[i]] = "backlog"
        BY <2>1 DEF BrokerInv, BacklogOK
  <2>3. \A i, j \in 1 .. Len(backlog) : backlog[i] = backlog[j] => i = j
        BY DEF BrokerInv, BacklogOK
  <2> QED BY <1>1, <2>2, <2>3 DEF BacklogOK
<1> QED BY <1>1, <1>5, <1>6, <1>7 DEF BrokerInv

(* A client without events, one over the quota, and one whose message      *)
(* cannot be received.                                                     *)
LEMMA NoMessageStep ==
    ASSUME BrokerInv, SkipClient \/ RefuseClient \/ ReceiveFails
    PROVE  BrokerInv'
<1>1. /\ Serving /\ NextClient
      /\ UNCHANGED <<handled_clients, memfds, replies, granted>>
      /\ \/ UNCHANGED <<clients, generation, fd_table, link, requests>>
         \/ ahe_broker_close_client(client_index, clients, generation,
                                    fd_table)
      BY DEF SkipClient, RefuseClient, ReceiveFails, NoMessage
<1>2. client_index \in 1 .. Len(clients) /\ clients \in Seq(Client)
      BY <1>1, ServingClient
<1>3. /\ Owned(clients', generation', fd_table', link', listener_fd)
      /\ CreatorOK(clients', generation', fd_table', granted')
      /\ Len(clients') >= Len(clients) - 1
      /\ \A j \in 1 .. client_index - 1 : clients'[j].fd = clients[j].fd
      /\ \A d \in Conns : link[d] = "backlog" => link'[d] = "backlog"
      /\ requests' \in [Conns -> Seq(Requests)]
  <2>1. CASE UNCHANGED <<clients, generation, fd_table, link, requests>>
        BY <1>1, <1>2, <2>1
           DEF BrokerInv, RestOK, Owned, TableOK, ClientsOK, GenerationOK,
               ListenerOK, NoLeak, CreatorOK
  <2>2. CASE ahe_broker_close_client(client_index, clients, generation,
                                     fd_table)
    <3>1. /\ Owned(clients, generation, fd_table, link, listener_fd)
          /\ CreatorOK(clients, generation, fd_table, granted')
          BY <1>1 DEF BrokerInv
    <3>2. /\ Owned(clients', generation', fd_table', link', listener_fd)
          /\ CreatorOK(clients', generation', fd_table', granted')
          /\ Len(clients') = Len(clients) - 1
          /\ \A j \in 1 .. client_index - 1 : clients'[j].fd = clients[j].fd
          /\ \A d \in Conns : link[d] = "backlog" => link'[d] = "backlog"
          /\ requests' \in [Conns -> Seq(Requests)]
          BY <1>2, <2>2, <3>1, CloseStep
    <3> QED BY <1>2, <3>2
  <2> QED BY <1>1, <2>1, <2>2
<1>4. /\ handled_clients' \in Nat /\ memfds' \in Nat
      /\ replies' \in [Conns -> Seq(Replies)] /\ granted' \in SUBSET Grant
      BY <1>1 DEF BrokerInv, RestOK
<1> QED BY <1>1, <1>3, <1>4, TurnStep

(* A message that was received is one a peer may send, and is counted.     *)
LEMMA ReceivedRequest ==
    ASSUME BrokerInv, NEW type, ahe_broker_receive_message(type)
    PROVE  /\ Serving
           /\ Received \in Request
           /\ Tail(requests[Conn(client_index)]) \in Seq(Requests)
           /\ handled_clients' \in Nat
<1>1. /\ Serving
      /\ requests[Conn(client_index)] # <<>>
      /\ handled_clients' \in {handled_clients, handled_clients + 1}
      BY DEF ahe_broker_receive_message, HasMessage
<1>2. /\ requests \in [Conns -> Seq(Requests)] /\ handled_clients \in Nat
      BY DEF BrokerInv, RestOK
<1>5. Conn(client_index) \in Conns
      BY <1>1, ServingClient
<1>3. requests[Conn(client_index)] \in Seq(Requests)
      BY <1>2, <1>5
<1>4. /\ Head(requests[Conn(client_index)]) \in Requests
      /\ Tail(requests[Conn(client_index)]) \in Seq(Requests)
      BY <1>1, <1>3
<1> QED BY <1>1, <1>2, <1>4, BrokerAssumption DEF Received

(* Replies are queued whole; descriptors that are delivered are recorded.  *)
LEMMA SendLemma ==
    ASSUME BrokerInv, Serving, NEW reply \in Replies,
           reply.cache # 0 => reply.type \in {"CREATE", "ATTACH"},
           ahe_broker_send_message(reply)
    PROVE  /\ replies' \in [Conns -> Seq(Replies)]
           /\ granted' \in SUBSET Grant
           /\ granted \subseteq granted'
           /\ CanSend /\ reply.cache # 0 =>
                 \E g \in granted' :
                    /\ g.conn = Conn(client_index) /\ g.type = reply.type
                    /\ g.cache = reply.cache /\ g.lock = reply.lock
<1> DEFINE c == Conn(client_index)
           grant == [conn |-> c, type |-> reply.type, cache |-> reply.cache,
                     lock |-> reply.lock, mapping_base |-> reply.mapping_base,
                     shared_globals_offset |-> reply.shared_globals_offset]
<1>1. /\ replies' = IF CanSend THEN [replies EXCEPT ![c] = Append(@, reply)]
                               ELSE replies
      /\ granted' = IF CanSend /\ reply.cache # 0 THEN granted \cup {grant}
                                                  ELSE granted
      BY DEF ahe_broker_send_message
<1>2. c \in Conns
      BY ServingClient
<1>3. replies \in [Conns -> Seq(Replies)] /\ granted \in SUBSET Grant
      BY DEF BrokerInv, RestOK
<1>4. reply.cache # 0 => grant \in Grant
      BY <1>2 DEF Grant, Replies
<1>5. /\ grant.conn = c /\ grant.type = reply.type
      /\ grant.cache = reply.cache /\ grant.lock = reply.lock
      OBVIOUS
<1> HIDE DEF grant, c
<1>6. replies' \in [Conns -> Seq(Replies)]
  <2>1. Append(replies[c], reply) \in Seq(Replies)
        BY <1>2, <1>3
  <2> QED BY <1>1, <1>3, <2>1
<1>7. granted' \in SUBSET Grant /\ granted \subseteq granted'
      BY <1>1, <1>3, <1>4
<1>8. CanSend /\ reply.cache # 0 => grant \in granted'
      BY <1>1
<1> QED BY <1>5, <1>6, <1>7, <1>8 DEF c

(* The end of a turn in which a message was handled: what the handler      *)
(* leaves behind is owned, and if it leaves a generation to a creator that *)
(* was not told so, it gives up the connection.                            *)
LEMMA FinishStep ==
    ASSUME BrokerInv, NEW type, ahe_broker_receive_message(type),
           NEW gen, NEW table, NEW keep \in BOOLEAN,
           Owned(clients, gen, table, link, listener_fd),
           table[ClientFd] = fd_table[ClientFd],
           \/ CreatorOK(clients, gen, table, granted')
           \/ IsCreator(gen, ClientFd) /\ ~keep,
           Finish(gen, table, keep),
           replies' \in [Conns -> Seq(Replies)],
           granted' \in SUBSET Grant,
           memfds' \in Nat
    PROVE  BrokerInv'
<1> DEFINE cls == [clients EXCEPT ![client_index].handled_message = TRUE]
           c == Conn(client_index)
<1>1. /\ Serving /\ handled_clients' \in Nat
      /\ Tail(requests[c]) \in Seq(Requests)
      BY ReceivedRequest
<1>2. client_index \in 1 .. Len(clients) /\ clients \in Seq(Client)
      BY <1>1, ServingClient
<1>3. /\ Owned(cls, gen, table, link, listener_fd)
      /\ Len(cls) = Len(clients)
      /\ \A j \in 1 .. Len(clients) : cls[j].fd = clients[j].fd
      /\ CreatorOK(clients, gen, table, granted')
            => CreatorOK(cls, gen, table, granted')
      BY <1>2, MarkLemma
<1>4. /\ NextClient
      /\ \/ /\ keep
            /\ clients' = cls /\ generation' = gen /\ fd_table' = table
            /\ link' = link
            /\ requests' = [requests EXCEPT ![c] = Tail(@)]
         \/ ahe_broker_close_client(client_index, cls, gen, table)
      BY DEF Finish
<1> HIDE DEF cls
<1>5. /\ Owned(clients', generation', fd_table', link', listener_fd)
      /\ CreatorOK(clients', generation', fd_table', granted')
      /\ Len(clients') >= Len(clients) - 1
      /\ \A j \in 1 .. client_index - 1 : clients'[j].fd = clients[j].fd
      /\ \A d \in Conns : link[d] = "backlog" => link'[d] = "backlog"
      /\ requests' \in [Conns -> Seq(Requests)]
  <2>1. CASE /\ keep
             /\ clients' = cls /\ generation' = gen /\ fd_table' = table
             /\ link' = link
             /\ requests' = [requests EXCEPT ![c] = Tail(@)]
    <3>1. requests' \in [Conns -> Seq(Requests)]
      <4>1. requests \in [Conns -> Seq(Requests)]
            BY DEF BrokerInv, RestOK
      <4> QED BY <1>1, <2>1, <4>1
    <3>2. /\ Owned(clients', generation', fd_table', link', listener_fd)
          /\ CreatorOK(clients', generation', fd_table', granted')
          BY <1>3, <2>1
    <3>3. \A j \in 1 .. client_index - 1 : clients'[j].fd = clients[j].fd
          BY <1>2, <1>3, <2>1
    <3>4. Len(clients') >= Len(clients) - 1
          BY <1>2, <1>3, <2>1
    <3> QED BY <2>1, <3>1, <3>2, <3>3, <3>4
  <2>2. CASE ahe_broker_close_client(client_index, cls, gen, table)
    <3>1. /\ table[clients[client_index].fd] = fd_table[clients[client_index].fd]
          /\ \/ CreatorOK(cls, gen, table, granted')
             \/ IsCreator(gen, clients[client_index].fd)
          BY <1>3 DEF ClientFd
    <3>2. /\ Owned(clients', generation', fd_table', link', listener_fd)
          /\ CreatorOK(clients', generation', fd_table', granted')
          /\ Len(clients') = Len(clients) - 1
          /\ \A j \in 1 .. client_index - 1 : clients'[j].fd = clients[j].fd
          /\ \A d \in Conns : link[d] = "backlog" => link'[d] = "backlog"
          /\ requests' \in [Conns -> Seq(Requests)]
          BY <1>2, <1>3, <2>2, <3>1, CloseStep
    <3> QED BY <1>2, <3>2
  <2> QED BY <1>4, <2>1, <2>2
<1> QED BY <1>1, <1>4, <1>5, TurnStep

(* The creator stays connected when more descriptors are delivered.        *)
LEMMA CreatorKept ==
    ASSUME NEW cls, NEW gen, NEW table, NEW gr, NEW more,
           CreatorOK(cls, gen, table, gr), gr \subseteq more
    PROVE  CreatorOK(cls, gen, table, more)
BY DEF CreatorOK

(* Whether a reply can be sent is a plain yes or no.                       *)
LEMMA CanSendBoolean == CanSend \in BOOLEAN
BY DEF CanSend

(* A reply without descriptors that leaves the generation alone.           *)
LEMMA ReplyStep ==
    ASSUME BrokerInv, NEW type, ahe_broker_receive_message(type),
           NEW keep \in BOOLEAN,
           NEW answer \in {"DECLINE", "ACK", "ERROR"}, Reply(answer, keep)
    PROVE  BrokerInv'
<1>1. /\ ahe_broker_send_message(ahe_broker_message_init(answer))
      /\ Finish(generation, fd_table, keep)
      /\ memfds' = memfds
      BY DEF Reply
<1>2. /\ ahe_broker_message_init(answer) \in Replies
      /\ ahe_broker_message_init(answer).cache = 0
      BY DEF ahe_broker_message_init, Replies
<1>3. Serving
      BY ReceivedRequest
<1>4. /\ replies' \in [Conns -> Seq(Replies)]
      /\ granted' \in SUBSET Grant /\ granted \subseteq granted'
      BY <1>1, <1>2, <1>3, SendLemma
<1>5. /\ Owned(clients, generation, fd_table, link, listener_fd)
      /\ CreatorOK(clients, generation, fd_table, granted)
      /\ memfds \in Nat
      BY DEF BrokerInv, RestOK
<1>6. CreatorOK(clients, generation, fd_table, granted')
      BY <1>4, <1>5, CreatorKept
<1> QED BY <1>1, <1>4, <1>5, <1>6, FinishStep

(* A creation that fails halfway leaves the descriptor table as it was:    *)
(* what was opened was free, and the reset closes it again.                *)
LEMMA ResetUndoes ==
    ASSUME TableOK(fd_table), NEW cache_fd \in Fd,
           NEW lock_fd \in Fd \cup {NoFd},
           fd_table[cache_fd] = Closed,
           lock_fd # NoFd => fd_table[lock_fd] = Closed
    PROVE  ahe_generation_reset(
               [ahe_generation_init EXCEPT !.cache_fd = cache_fd,
                                           !.lock_fd = lock_fd],
               Opened(cache_fd, lock_fd)) = fd_table
<1> DEFINE gen == [ahe_generation_init EXCEPT !.cache_fd = cache_fd,
                                              !.lock_fd = lock_fd]
           new == ahe_generation_reset(gen, Opened(cache_fd, lock_fd))
<1>1. \A f \in Fd : f # -1
      BY BrokerAssumption DEF Fd
<1>2. GenerationFds(gen) = {cache_fd, lock_fd} \ {-1}
      BY DEF GenerationFds, ahe_generation_init
<1>3. new = [f \in Fd |-> IF f \in {cache_fd, lock_fd} \ {-1}
                          THEN Closed ELSE Opened(cache_fd, lock_fd)[f]]
      BY <1>2 DEF ahe_generation_reset, CloseFds
<1>4. \A f \in Fd : f # cache_fd /\ f # lock_fd =>
          Opened(cache_fd, lock_fd)[f] = fd_table[f]
      BY DEF Opened
<1>5. \A f \in Fd : new[f] = fd_table[f]
      BY <1>1, <1>3, <1>4
<1> QED BY <1>3, <1>5 DEF TableOK

(* Whether it creates nothing or undoes what it created, a failed ACQUIRE  *)
(* changes nothing but the socket.                                         *)
LEMMA AcquireFailsPlainly ==
    ASSUME BrokerInv, AcquireFails
    PROVE  /\ ahe_broker_receive_message("ACQUIRE")
           /\ generation.state = "EMPTY"
           /\ Reply("ERROR", CanSend)
<1>1. /\ ahe_broker_receive_message("ACQUIRE")
      /\ generation.state = "EMPTY"
      /\ ahe_broker_send_message(ahe_broker_message_init("ERROR"))
      /\ Finish(generation, fd_table, CanSend) \/ CreationUndone
      /\ UNCHANGED memfds
      BY DEF AcquireFails
<1>2. TableOK(fd_table) /\ generation = ahe_generation_init
      BY <1>1 DEF BrokerInv, Owned, GenerationOK
<1>3. CASE CreationUndone
  <2>1. PICK cache_fd \in Fd, lock_fd \in Fd \cup {NoFd} :
            /\ IsNextFd(cache_fd, fd_table)
            /\ lock_fd # NoFd => IsNextFd(lock_fd, Opened(cache_fd, NoFd))
            /\ Finish(ahe_generation_init,
                      ahe_generation_reset(
                          [ahe_generation_init EXCEPT !.cache_fd = cache_fd,
                                                      !.lock_fd = lock_fd],
                          Opened(cache_fd, lock_fd)),
                      CanSend)
        BY <1>3 DEF CreationUndone
  <2>2. fd_table[cache_fd] = Closed
        BY <2>1 DEF IsNextFd, FreeFds
  <2>3. ASSUME lock_fd # NoFd
        PROVE  fd_table[lock_fd] = Closed
    <3>1. lock_fd \in Fd /\ Opened(cache_fd, NoFd)[lock_fd] = Closed
          BY <2>1, <2>3 DEF IsNextFd, FreeFds
    <3>2. Memfd(memfds + 1) # Closed /\ Memfd(memfds + 2) # Closed
          BY DEF Memfd, Closed, Object
    <3> QED BY <3>1, <3>2 DEF Opened
  <2>4. ahe_generation_reset(
            [ahe_generation_init EXCEPT !.cache_fd = cache_fd,
                                        !.lock_fd = lock_fd],
            Opened(cache_fd, lock_fd)) = fd_table
        BY <1>2, <2>2, <2>3, ResetUndoes
  <2>5. Finish(generation, fd_table, CanSend)
        BY <1>2, <2>1, <2>4
  <2> QED BY <1>1, <2>5 DEF Reply
<1>4. CASE Finish(generation, fd_table, CanSend)
      BY <1>1, <1>4 DEF Reply
<1> QED BY <1>1, <1>3, <1>4

(* DETACH, a type no case matches, a declined or failed ACQUIRE.           *)
LEMMA PlainReplies ==
    ASSUME BrokerInv,
           HandleDetach \/ HandleOther \/ AcquireFails \/ AcquireDeclined
    PROVE  BrokerInv'
<1>1. CASE HandleDetach
      BY <1>1, ReplyStep DEF HandleDetach
<1>2. CASE HandleOther
      BY <1>2, ReplyStep DEF HandleOther
<1>3. CASE AcquireFails
      BY <1>3, ReplyStep, CanSendBoolean, AcquireFailsPlainly
<1>4. CASE AcquireDeclined
      BY <1>4, ReplyStep, CanSendBoolean DEF AcquireDeclined
<1> QED BY <1>1, <1>2, <1>3, <1>4

(* The reply that hands out the memfds of an owned generation.             *)
LEMMA DescriptorsLemma ==
    ASSUME NEW gen, NEW table, TableOK(table), GenerationOK(gen, table),
           gen.state # "EMPTY"
    PROVE  LET reply == Descriptors(gen, table)
           IN  /\ reply \in Replies
               /\ reply.type \in {"CREATE", "ATTACH"}
               /\ gen.state = "INITIALIZING" => reply.type = "CREATE"
               /\ reply.cache = table[gen.cache_fd].id
               /\ reply.lock = table[gen.lock_fd].id
               /\ reply.cache # 0
<1>1. /\ gen.cache_fd \in Fd /\ gen.lock_fd \in Fd
      /\ gen.mapping_size \in Nat /\ gen.mapping_base \in Nat
      /\ gen.shared_globals_offset \in Nat
      BY DEF GenerationOK, Generations
<1>2. /\ table[gen.cache_fd].id \in Nat \ {0}
      /\ table[gen.lock_fd].id \in Nat \ {0}
      BY <1>1 DEF GenerationOK, TableOK
<1> QED BY <1>1, <1>2 DEF Descriptors, Replies

(* ACQUIRE of a generation that matches: its descriptors go out again.     *)
LEMMA GrantStep == BrokerInv /\ AcquireGranted => BrokerInv'
<1> SUFFICES ASSUME BrokerInv, AcquireGranted PROVE BrokerInv'
    OBVIOUS
<1> DEFINE reply == Descriptors(generation, fd_table)
<1>1. /\ ahe_broker_receive_message("ACQUIRE")
      /\ generation.state # "EMPTY"
      /\ ahe_broker_send_message(reply)
      /\ Finish(generation, fd_table, CanSend)
      /\ memfds' = memfds
      BY DEF AcquireGranted
<1>2. Serving
      BY <1>1, ReceivedRequest
<1>3. /\ Owned(clients, generation, fd_table, link, listener_fd)
      /\ CreatorOK(clients, generation, fd_table, granted)
      /\ memfds \in Nat
      BY DEF BrokerInv, RestOK
<1>4. reply \in Replies /\ reply.type \in {"CREATE", "ATTACH"}
      BY <1>1, <1>3, DescriptorsLemma DEF Owned
<1> HIDE DEF reply
<1>5. /\ replies' \in [Conns -> Seq(Replies)]
      /\ granted' \in SUBSET Grant /\ granted \subseteq granted'
      BY <1>1, <1>2, <1>4, SendLemma
<1>6. CreatorOK(clients, generation, fd_table, granted')
      BY <1>3, <1>5, CreatorKept
<1> QED BY <1>1, <1>3, <1>5, <1>6, FinishStep, CanSendBoolean

(* ACQUIRE of an empty generation: two new memfds at descriptors that were *)
(* not in use.                                                             *)
LEMMA Allocated ==
    ASSUME BrokerInv, AcquireCreates
    PROVE  \E cache_fd \in Fd, lock_fd \in Fd, table \in [Fd -> Objects] :
               LET gen == ahe_generation_create(cache_fd, lock_fd)
               IN  /\ cache_fd # lock_fd
                   /\ fd_table[cache_fd] = Closed
                   /\ fd_table[lock_fd] = Closed
                   /\ \A f \in Fd : table[f] =
                         IF f = cache_fd THEN Memfd(memfds + 1)
                         ELSE IF f = lock_fd THEN Memfd(memfds + 2)
                         ELSE fd_table[f]
                   /\ ahe_broker_send_message(Descriptors(gen, table))
                   /\ Finish(gen, table, CanSend)
<1>1. PICK cache_fd \in Fd, lock_fd \in Fd :
          LET opened == [fd_table EXCEPT ![cache_fd] = Memfd(memfds + 1)]
              table == [opened EXCEPT ![lock_fd] = Memfd(memfds + 2)]
              gen == ahe_generation_create(cache_fd, lock_fd)
          IN  /\ IsNextFd(cache_fd, fd_table)
              /\ IsNextFd(lock_fd, opened)
              /\ ahe_broker_send_message(Descriptors(gen, table))
              /\ Finish(gen, table, CanSend)
      BY DEF AcquireCreates
<1> DEFINE opened == [fd_table EXCEPT ![cache_fd] = Memfd(memfds + 1)]
           table == [opened EXCEPT ![lock_fd] = Memfd(memfds + 2)]
           gen == ahe_generation_create(cache_fd, lock_fd)
<1>2. fd_table \in [Fd -> Objects] /\ memfds \in Nat
      BY DEF BrokerInv, RestOK, Owned, TableOK
<1>3. \A n \in Nat \ {0} : Memfd(n) \in Objects /\ Memfd(n).kind = "memfd"
      BY DEF Memfd, Object, Objects
<1>4. /\ opened \in [Fd -> Objects]
      /\ \A f \in Fd : opened[f] = IF f = cache_fd THEN Memfd(memfds + 1)
                                                   ELSE fd_table[f]
      BY <1>2, <1>3
<1>5. fd_table[cache_fd] = Closed /\ opened[lock_fd] = Closed
      BY <1>1 DEF IsNextFd, FreeFds
<1>6. /\ ahe_broker_send_message(Descriptors(gen, table))
      /\ Finish(gen, table, CanSend)
      BY <1>1
<1> HIDE DEF opened
<1>7. lock_fd # cache_fd /\ fd_table[lock_fd] = Closed
      BY <1>2, <1>3, <1>4, <1>5, ClosedObject
<1>8. /\ table \in [Fd -> Objects]
      /\ \A f \in Fd : table[f] = IF f = cache_fd THEN Memfd(memfds + 1)
                                  ELSE IF f = lock_fd THEN Memfd(memfds + 2)
                                  ELSE fd_table[f]
      BY <1>2, <1>3, <1>4, <1>7
<1> HIDE DEF table
<1> QED BY <1>5, <1>6, <1>7, <1>8

(* The client that asked becomes the creator if it can be told.            *)
LEMMA CreateStep == BrokerInv /\ AcquireCreates => BrokerInv'
<1> SUFFICES ASSUME BrokerInv, AcquireCreates PROVE BrokerInv'
    OBVIOUS
<1>1. PICK cache_fd \in Fd, lock_fd \in Fd, table \in [Fd -> Objects] :
          LET gen == ahe_generation_create(cache_fd, lock_fd)
          IN  /\ cache_fd # lock_fd
              /\ fd_table[cache_fd] = Closed
              /\ fd_table[lock_fd] = Closed
              /\ \A f \in Fd : table[f] =
                    IF f = cache_fd THEN Memfd(memfds + 1)
                    ELSE IF f = lock_fd THEN Memfd(memfds + 2)
                    ELSE fd_table[f]
              /\ ahe_broker_send_message(Descriptors(gen, table))
              /\ Finish(gen, table, CanSend)
      BY Allocated
<1> DEFINE gen == ahe_generation_create(cache_fd, lock_fd)
           reply == Descriptors(gen, table)
<1>2. /\ ahe_broker_receive_message("ACQUIRE")
      /\ generation.state = "EMPTY"
      /\ ValidCreation(Received)
      /\ memfds' = memfds + 2
      BY DEF AcquireCreates
<1>3. Serving /\ Received \in Request
      BY <1>2, ReceivedRequest
<1>4. /\ ClientFd \in Fd /\ client_index \in 1 .. Len(clients)
      /\ fd_table[ClientFd].kind = "socket"
      BY <1>3, ServingClient
<1>5. /\ TableOK(fd_table) /\ ClientsOK(clients, fd_table, link)
      /\ GenerationOK(generation, fd_table)
      /\ ListenerOK(listener_fd, fd_table)
      /\ NoLeak(clients, generation, fd_table, listener_fd)
      /\ memfds \in Nat
      BY DEF BrokerInv, RestOK, Owned
<1>6. \A n \in Nat \ {0} : /\ Memfd(n) \in Objects
                           /\ Memfd(n).kind = "memfd" /\ Memfd(n).id = n
      BY DEF Memfd, Object, Objects
<1>8. fd_table[cache_fd] = Closed
      BY <1>1
<1>9. /\ ahe_broker_send_message(reply)
      /\ Finish(gen, table, CanSend)
      BY <1>1
<1>10. lock_fd # cache_fd /\ fd_table[lock_fd] = Closed
      BY <1>1
<1>11. /\ table \in [Fd -> Objects]
       /\ \A f \in Fd : table[f] = IF f = cache_fd THEN Memfd(memfds + 1)
                                   ELSE IF f = lock_fd THEN Memfd(memfds + 2)
                                   ELSE fd_table[f]
      BY <1>1
<1>12. \A f \in Fd : fd_table[f].kind # "closed" => table[f] = fd_table[f]
      BY <1>8, <1>10, <1>11, ClosedObject
<1>13. TableOK(table)
      BY <1>5, <1>6, <1>11 DEF TableOK
<1>14. ClientsOK(clients, table, link)
  <2>1. \A i \in 1 .. Len(clients) : clients[i].fd \in Fd
        BY <1>5, EntryFd DEF ClientsOK
  <2>2. \A i \in 1 .. Len(clients) :
            table[clients[i].fd] = fd_table[clients[i].fd]
        BY <1>5, <1>12, <2>1 DEF ClientsOK
  <2> QED BY <1>5, <2>2 DEF ClientsOK
<1>15. /\ gen.state = "INITIALIZING" /\ gen.cache_fd = cache_fd
       /\ gen.lock_fd = lock_fd /\ gen.creator_fd = ClientFd
       /\ gen \in Generations
  <2>1. /\ Received.mapping_size \in Nat /\ Received.cache_key \in Keys
        BY <1>2, <1>3 DEF ValidCreation, Request
  <2> QED BY <1>4, <2>1 DEF ahe_generation_create, Generations
<1> HIDE DEF gen
<1>16. GenerationOK(gen, table)
  <2>1. cache_fd # -1 /\ lock_fd # -1
        BY DEF Fd
  <2> QED BY <1>5, <1>6, <1>10, <1>11, <1>15, <2>1 DEF GenerationOK
<1>17. ListenerOK(listener_fd, table)
      BY <1>5, <1>12 DEF ListenerOK, Listener, Object
<1>18. NoLeak(clients, gen, table, listener_fd)
  <2>1. \A f \in Fd : f # -1
        BY DEF Fd
  <2>2. generation.cache_fd = -1 /\ generation.lock_fd = -1
        BY <1>2, <1>5 DEF GenerationOK, ahe_generation_init
  <2> QED BY <1>5, <1>11, <1>15, <2>1, <2>2 DEF NoLeak
<1>19. Owned(clients, gen, table, link, listener_fd)
      BY <1>13, <1>14, <1>16, <1>17, <1>18 DEF Owned
<1>20. /\ reply \in Replies /\ reply.type = "CREATE" /\ reply.cache # 0
       /\ reply.cache = table[cache_fd].id /\ reply.lock = table[lock_fd].id
      BY <1>13, <1>15, <1>16, DescriptorsLemma
<1> HIDE DEF reply
<1>21. /\ replies' \in [Conns -> Seq(Replies)] /\ granted' \in SUBSET Grant
       /\ CanSend /\ reply.cache # 0 =>
             \E g \in granted' :
                /\ g.conn = Conn(client_index) /\ g.type = reply.type
                /\ g.cache = reply.cache /\ g.lock = reply.lock
      BY <1>3, <1>9, <1>20, SendLemma
<1>22. table[ClientFd] = fd_table[ClientFd]
      BY <1>4, <1>12
<1>23. CanSend => CreatorOK(clients, gen, table, granted')
  <2> HAVE CanSend
  <2>1. PICK g \in granted' :
            /\ g.conn = Conn(client_index) /\ g.type = "CREATE"
            /\ g.cache = table[cache_fd].id /\ g.lock = table[lock_fd].id
        BY <1>20, <1>21
  <2>2. Conn(client_index) = table[clients[client_index].fd].id
        BY <1>22 DEF Conn, ClientFd
  <2>3. clients[client_index].fd = gen.creator_fd
        BY <1>15 DEF ClientFd
  <2> QED BY <1>4, <1>15, <2>1, <2>2, <2>3 DEF CreatorOK
<1>24. ~CanSend => IsCreator(gen, ClientFd) /\ ~CanSend
      BY <1>15 DEF IsCreator
<1>25. memfds' \in Nat
      BY <1>2, <1>5
<1> QED BY <1>2, <1>9, <1>19, <1>21, <1>22, <1>23, <1>24, <1>25,
           FinishStep, CanSendBoolean

(* READY: the generation is published if the creator can be told.          *)
LEMMA ReadyStep == BrokerInv /\ ahe_broker_handle_ready => BrokerInv'
<1> SUFFICES ASSUME BrokerInv, ahe_broker_handle_ready PROVE BrokerInv'
    OBVIOUS
<1>1. ahe_broker_receive_message("READY")
      BY DEF ahe_broker_handle_ready
<1>2. CASE ~ReadyAccepted /\ Reply("ERROR", CanSend)
      BY <1>1, <1>2, ReplyStep, CanSendBoolean
<1>3. ASSUME ReadyAccepted,
             ahe_broker_send_message(ahe_broker_message_init("ACK")),
             Finish(IF CanSend THEN Published ELSE generation, fd_table,
                    CanSend),
             memfds' = memfds
      PROVE  BrokerInv'
  <2> DEFINE gen == IF CanSend THEN Published ELSE generation
  <2>1. Serving /\ Received \in Request
        BY <1>1, ReceivedRequest
  <2>2. /\ ahe_broker_message_init("ACK") \in Replies
        /\ ahe_broker_message_init("ACK").cache = 0
        BY DEF ahe_broker_message_init, Replies
  <2>3. /\ replies' \in [Conns -> Seq(Replies)]
        /\ granted' \in SUBSET Grant /\ granted \subseteq granted'
        BY <1>3, <2>1, <2>2, SendLemma
  <2>4. /\ Owned(clients, generation, fd_table, link, listener_fd)
        /\ CreatorOK(clients, generation, fd_table, granted)
        /\ memfds \in Nat
        BY DEF BrokerInv, RestOK
  <2>5. generation.state = "INITIALIZING" /\ generation \in Generations
        BY <1>3, <2>4 DEF ReadyAccepted, IsCreator, Owned, GenerationOK
  <2>6. /\ Published \in Generations
        /\ Published.state = "READY" /\ Published.creator_fd = -1
        /\ Published.cache_fd = generation.cache_fd
        /\ Published.lock_fd = generation.lock_fd
    <3>1. /\ Received.mapping_base \in Nat
          /\ Received.shared_globals_offset \in Nat
          BY <2>1 DEF Request
    <3> QED BY <2>5, <3>1 DEF Published, Generations
  <2>7. /\ Owned(clients, Published, fd_table, link, listener_fd)
        /\ CreatorOK(clients, Published, fd_table, granted')
    <3>1. GenerationOK(Published, fd_table)
          BY <2>4, <2>5, <2>6 DEF Owned, GenerationOK
    <3>2. NoLeak(clients, Published, fd_table, listener_fd)
          BY <2>4, <2>6 DEF Owned, NoLeak
    <3> QED BY <2>4, <2>6, <3>1, <3>2 DEF Owned, CreatorOK
  <2>8. CreatorOK(clients, generation, fd_table, granted')
        BY <2>3, <2>4, CreatorKept
  <2>9. /\ Owned(clients, gen, fd_table, link, listener_fd)
        /\ CreatorOK(clients, gen, fd_table, granted')
        BY <2>4, <2>7, <2>8
  <2>10. Finish(gen, fd_table, CanSend)
        BY <1>3
  <2> HIDE DEF gen
  <2> QED BY <1>1, <1>3, <2>3, <2>4, <2>9, <2>10, FinishStep, CanSendBoolean
<1> QED BY <1>2, <1>3 DEF ahe_broker_handle_ready

(* ABORT: the creator's generation is discarded, any other is kept.        *)
LEMMA AbortStep == BrokerInv /\ HandleAbort => BrokerInv'
<1> SUFFICES ASSUME BrokerInv, HandleAbort PROVE BrokerInv'
    OBVIOUS
<1>1. /\ ahe_broker_receive_message("ABORT")
      /\ ahe_broker_send_message(ahe_broker_message_init("ACK"))
      /\ memfds' = memfds
      BY DEF HandleAbort
<1>2. Serving
      BY <1>1, ReceivedRequest
<1>3. /\ ahe_broker_message_init("ACK") \in Replies
      /\ ahe_broker_message_init("ACK").cache = 0
      BY DEF ahe_broker_message_init, Replies
<1>4. /\ replies' \in [Conns -> Seq(Replies)]
      /\ granted' \in SUBSET Grant /\ granted \subseteq granted'
      BY <1>1, <1>2, <1>3, SendLemma
<1>5. /\ Owned(clients, generation, fd_table, link, listener_fd)
      /\ CreatorOK(clients, generation, fd_table, granted)
      /\ memfds \in Nat
      BY DEF BrokerInv, RestOK
<1>6. CASE Finish(generation, fd_table, CanSend)
  <2>1. CreatorOK(clients, generation, fd_table, granted')
        BY <1>4, <1>5, CreatorKept
  <2> QED BY <1>1, <1>4, <1>5, <1>6, <2>1, FinishStep, CanSendBoolean
<1>7. CASE Finish(ahe_generation_init,
                  ahe_generation_reset(generation, fd_table), CanSend)
  <2> DEFINE table == ahe_generation_reset(generation, fd_table)
             gen == ahe_generation_init
  <2>1. Owned(clients, gen, table, link, listener_fd)
        BY <1>5, ResetLemma
  <2>2. CreatorOK(clients, gen, table, granted')
        BY DEF CreatorOK, ahe_generation_init
  <2>3. table[ClientFd] = fd_table[ClientFd]
    <3>1. ClientFd \in Fd /\ client_index \in 1 .. Len(clients)
          BY <1>2, ServingClient
    <3>2. table[ClientFd].kind = "socket"
          BY <2>1, <3>1 DEF Owned, ClientsOK, ClientFd
    <3>3. table[ClientFd] = IF ClientFd \in GenerationFds(generation)
                            THEN Closed ELSE fd_table[ClientFd]
          BY <3>1 DEF ahe_generation_reset, CloseFds
    <3> QED BY <3>2, <3>3, ClosedObject
  <2>4. Finish(gen, table, CanSend)
        BY <1>7
  <2> HIDE DEF gen, table
  <2> QED BY <1>1, <1>4, <1>5, <2>1, <2>2, <2>3, <2>4, FinishStep,
             CanSendBoolean
<1> QED BY <1>6, <1>7 DEF HandleAbort

-----------------------------------------------------------------------------
(* Every step of the broker, the kernel and the peers preserves the        *)
(* invariant.                                                              *)
LEMMA BrokerNext == BrokerInv /\ [Next]_vars => BrokerInv'
<1> SUFFICES ASSUME BrokerInv, [Next]_vars PROVE BrokerInv'
    OBVIOUS
<1>1. CASE \/ LoopStops \/ LoopContinues \/ TrimDone \/ SetupFails
           \/ AcceptFails \/ ahe_broker_handle_signal
      BY <1>1, LoopSteps
<1>2. CASE LoopClosesListener
      BY <1>2, CloseListenerStep
<1>3. CASE TrimClient
      BY <1>3, TrimStep
<1>4. CASE Setup \/ Poll
      BY <1>4, SetupStep, PollStep
<1>5. CASE SkipClient \/ RefuseClient \/ ReceiveFails
      BY <1>5, NoMessageStep
<1>6. CASE HandleDetach \/ HandleOther \/ AcquireFails \/ AcquireDeclined
      BY <1>6, PlainReplies
<1>7. CASE AcquireGranted \/ AcquireCreates
      BY <1>7, GrantStep, CreateStep
<1>8. CASE ahe_broker_handle_ready \/ HandleAbort
      BY <1>8, ReadyStep, AbortStep
<1>9. CASE SkipAccept \/ ahe_broker_add_client \/ RejectForeign
      BY <1>9, SkipAcceptStep, AddClientStep, RejectStep
<1>10. CASE Shutdown \/ Kill
      BY <1>10, ExitStep
<1>11. CASE PeerStep
      BY <1>11, ConnectStep, PeerSteps DEF PeerStep
<1>12. CASE UNCHANGED vars
  <2>1. RestOK' /\ LoopOK' /\ BacklogOK'
        BY <1>12 DEF vars, BrokerInv, RestOK, LoopOK, PollAligned, BacklogOK
  <2>2. Owned(clients, generation, fd_table, link, listener_fd)'
        BY <1>12 DEF vars, BrokerInv, Owned, TableOK, ClientsOK, GenerationOK,
                     ListenerOK, NoLeak
  <2>3. CreatorOK(clients, generation, fd_table, granted)'
        BY <1>12 DEF vars, BrokerInv, CreatorOK
  <2> QED BY <2>1, <2>2, <2>3 DEF BrokerInv
<1>13. CASE BrokerStep
      BY <1>1, <1>2, <1>3, <1>4, <1>5, <1>6, <1>7, <1>8, <1>9, <1>10, <1>13
         DEF BrokerStep, ahe_broker_handle_client_message,
             ahe_broker_handle_acquire
<1> QED BY <1>1, <1>10, <1>11, <1>12, <1>13 DEF Next

(* The invariant implies the types and the safety properties.              *)
LEMMA BrokerInvSafe ==
    BrokerInv => TypeOK /\ DescriptorsOwned /\ CreatorConnected /\ PollAligned
<1> SUFFICES ASSUME BrokerInv
             PROVE  TypeOK /\ DescriptorsOwned /\ CreatorConnected
                    /\ PollAligned
    OBVIOUS
<1>1. /\ TableOK(fd_table) /\ ClientsOK(clients, fd_table, link)
      /\ GenerationOK(generation, fd_table)
      /\ ListenerOK(listener_fd, fd_table)
      /\ NoLeak(clients, generation, fd_table, listener_fd)
      /\ CreatorOK(clients, generation, fd_table, granted)
      BY DEF BrokerInv, Owned
<1>2. TypeOK
      BY <1>1 DEF BrokerInv, RestOK, TypeOK, TableOK, ClientsOK, Links,
                  GenerationOK, ListenerOK
<1>3. ClientsOwned
      BY <1>1 DEF ClientsOK, ClientsOwned, Conn
<1>4. GenerationOwned
      BY <1>1 DEF GenerationOK, GenerationOwned
<1>5. \A f \in Fd : fd_table[f] # Closed =>
          f \in ClientFds(clients) \cup GenerationFds(generation)
                                   \cup {listener_fd}
  <2>1. \A f \in Fd : f # -1
        BY DEF Fd
  <2> QED BY <1>1, <2>1 DEF NoLeak, ClientFds, GenerationFds
<1>6. DescriptorsOwned
      BY <1>1, <1>3, <1>4, <1>5 DEF ListenerOK, DescriptorsOwned
<1>7. CreatorConnected
      BY <1>1 DEF CreatorOK, CreatorConnected, Conn
<1>8. PollAligned
      BY DEF BrokerInv, LoopOK
<1> QED BY <1>2, <1>6, <1>7, <1>8

(* A turn that hands the generation on as it was, in whatever way it ends, *)
(* keeps a published one.                                                  *)
LEMMA KeptByClose ==
    ASSUME generation.state = "READY", NEW i, NEW cls, NEW table,
           ahe_broker_close_client(i, cls, generation, table)
    PROVE  generation' = generation
BY DEF ahe_broker_close_client, IsCreator

(* The same of the end of a turn in which a message was handled.           *)
LEMMA KeptByFinish ==
    ASSUME generation.state = "READY", NEW table, NEW keep,
           Finish(generation, table, keep)
    PROVE  generation' = generation
BY KeptByClose DEF Finish

(* No step but the end of the broker changes a published generation.       *)
LEMMA RetainedNext ==
    ASSUME [Next]_vars, generation.state = "READY", pc' # "exited"
    PROVE  generation' = generation
<1>1. CASE \/ LoopStops \/ LoopContinues \/ TrimDone \/ SetupFails
           \/ AcceptFails \/ ahe_broker_handle_signal \/ LoopClosesListener
           \/ Setup \/ Poll \/ SkipAccept \/ ahe_broker_add_client
           \/ RejectForeign \/ UNCHANGED vars
      BY <1>1 DEF LoopStops, LoopContinues, TrimDone, SetupFails, AcceptFails,
                  ahe_broker_handle_signal, LoopClosesListener, Setup, Poll,
                  SkipAccept, ahe_broker_add_client, RejectForeign,
                  NextIteration, vars
<1>2. CASE TrimClient \/ SkipClient \/ RefuseClient \/ ReceiveFails
      BY <1>2, KeptByClose
         DEF TrimClient, SkipClient, RefuseClient, ReceiveFails
<1>3. CASE HandleDetach \/ HandleOther \/ AcquireDeclined \/ AcquireGranted
      BY <1>3, KeptByFinish DEF HandleDetach, HandleOther, AcquireDeclined,
                                AcquireGranted, Reply
<1>4. CASE AcquireFails \/ AcquireCreates
      BY <1>4 DEF AcquireFails, AcquireCreates
<1>5. CASE ahe_broker_handle_ready
  <2>1. ~ReadyAccepted
        BY DEF ReadyAccepted, IsCreator
  <2> QED BY <1>5, <2>1, KeptByFinish DEF ahe_broker_handle_ready, Reply
<1>6. CASE HandleAbort
  <2>1. ~IsCreator(generation, ClientFd)
        BY DEF IsCreator
  <2> QED BY <1>6, <2>1, KeptByFinish DEF HandleAbort
<1>7. CASE Shutdown \/ Kill
      BY <1>7 DEF Shutdown, Kill, Disconnect
<1>8. CASE PeerStep
      BY <1>8 DEF PeerStep, PeerConnect, PeerSend, PeerReceive, PeerClose,
                  brokerVars
<1> QED BY <1>1, <1>2, <1>3, <1>4, <1>5, <1>6, <1>7, <1>8
        DEF Next, BrokerStep, ahe_broker_handle_client_message,
            ahe_broker_handle_acquire

(* Closing a connection publishes nothing.                                 *)
LEMMA UnpublishedByClose ==
    ASSUME NEW i, NEW cls, NEW gen, NEW table, gen.state # "READY",
           ahe_broker_close_client(i, cls, gen, table)
    PROVE  generation'.state # "READY"
BY DEF ahe_broker_close_client, ahe_generation_init

LEMMA UnpublishedByFinish ==
    ASSUME NEW gen, gen.state # "READY", NEW table, NEW keep,
           Finish(gen, table, keep)
    PROVE  generation'.state # "READY"
<1>1. CASE generation' = gen
      BY <1>1
<1>2. CASE ahe_broker_close_client(
               client_index,
               [clients EXCEPT ![client_index].handled_message = TRUE],
               gen, table)
      BY <1>2, UnpublishedByClose
<1> QED BY <1>1, <1>2 DEF Finish

(* The one step that publishes is an accepted READY whose acknowledgement  *)
(* goes out.                                                               *)
LEMMA PublishingStep ==
    ASSUME BrokerInv, [Next]_vars, generation.state = "INITIALIZING",
           generation'.state = "READY"
    PROVE  /\ ahe_broker_handle_ready
           /\ ReadyAccepted /\ CanSend
<1>1. CASE \/ LoopStops \/ LoopContinues \/ TrimDone \/ SetupFails
           \/ AcceptFails \/ ahe_broker_handle_signal \/ LoopClosesListener
           \/ Setup \/ Poll \/ SkipAccept \/ ahe_broker_add_client
           \/ RejectForeign \/ UNCHANGED vars
      BY <1>1 DEF LoopStops, LoopContinues, TrimDone, SetupFails, AcceptFails,
                  ahe_broker_handle_signal, LoopClosesListener, Setup, Poll,
                  SkipAccept, ahe_broker_add_client, RejectForeign,
                  NextIteration, vars
<1>2. CASE TrimClient \/ SkipClient \/ RefuseClient \/ ReceiveFails
      BY <1>2, UnpublishedByClose
         DEF TrimClient, SkipClient, RefuseClient, ReceiveFails
<1>3. CASE HandleDetach \/ HandleOther \/ AcquireDeclined \/ AcquireGranted
      BY <1>3, UnpublishedByFinish DEF HandleDetach, HandleOther,
         AcquireDeclined, AcquireGranted, Reply
<1>4. CASE AcquireFails \/ AcquireCreates
      BY <1>4 DEF AcquireFails, AcquireCreates
<1>5. CASE ahe_broker_handle_ready
  <2>1. CASE ReadyAccepted /\ CanSend
        BY <1>5, <2>1
  <2>2. CASE ReadyAccepted /\ ~CanSend
    <3>1. Finish(generation, fd_table, CanSend)
          BY <1>5, <2>2 DEF ahe_broker_handle_ready
    <3> QED BY <3>1, UnpublishedByFinish
  <2>3. CASE ~ReadyAccepted
    <3>1. Finish(generation, fd_table, CanSend)
          BY <1>5, <2>3 DEF ahe_broker_handle_ready, Reply
    <3> QED BY <3>1, UnpublishedByFinish
  <2> QED BY <2>1, <2>2, <2>3
<1>6. CASE HandleAbort
  <2>1. ahe_generation_init.state # "READY"
        BY DEF ahe_generation_init
  <2> QED BY <1>6, <2>1, UnpublishedByFinish DEF HandleAbort
<1>7. CASE Shutdown \/ Kill
      BY <1>7 DEF Shutdown, Kill, Disconnect, ahe_generation_init
<1>8. CASE PeerStep
      BY <1>8 DEF PeerStep, PeerConnect, PeerSend, PeerReceive, PeerClose,
                  brokerVars
<1> QED BY <1>1, <1>2, <1>3, <1>4, <1>5, <1>6, <1>7, <1>8
        DEF Next, BrokerStep, ahe_broker_handle_client_message,
            ahe_broker_handle_acquire

(* That step puts the acknowledgement on the socket of the creator.        *)
LEMMA AcknowledgedNext ==
    ASSUME BrokerInv, [Next]_vars, generation.state = "INITIALIZING",
           generation'.state = "READY"
    PROVE  \E c \in Conns :
               /\ fd_table[generation.creator_fd] = Socket(c)
               /\ replies'[c] = Append(replies[c],
                                       ahe_broker_message_init("ACK"))
<1>1. ahe_broker_handle_ready /\ ReadyAccepted /\ CanSend
      BY PublishingStep
<1>2. /\ ahe_broker_send_message(ahe_broker_message_init("ACK"))
      /\ ahe_broker_receive_message("READY")
      BY <1>1 DEF ahe_broker_handle_ready
<1>3. generation.creator_fd = ClientFd
      BY <1>1 DEF ReadyAccepted, IsCreator
<1>4. Serving
      BY <1>2, ReceivedRequest
<1>5. /\ client_index \in 1 .. Len(clients)
      /\ ClientFd \in Fd
      /\ fd_table[ClientFd].kind = "socket"
      /\ Conn(client_index) \in Conns
      /\ fd_table[ClientFd].id = Conn(client_index)
      BY <1>4, ServingClient DEF ClientFd, Conn
<1>6. fd_table[ClientFd] = Socket(Conn(client_index))
  <2>1. fd_table[ClientFd] \in Objects
        BY <1>5 DEF BrokerInv, Owned, TableOK
  <2> QED BY <1>5, <2>1 DEF Objects, Socket, Object
<1>7. replies' = [replies EXCEPT ![Conn(client_index)] =
                      Append(@, ahe_broker_message_init("ACK"))]
      BY <1>1, <1>2 DEF ahe_broker_send_message
<1>8. replies'[Conn(client_index)] = Append(replies[Conn(client_index)],
                                            ahe_broker_message_init("ACK"))
      BY <1>5, <1>7 DEF BrokerInv, RestOK
<1> QED BY <1>3, <1>5, <1>6, <1>8

(* The inductive invariant holds in every reachable state.                 *)
THEOREM BrokerInvariant == Spec => []BrokerInv
<1>1. Init => BrokerInv
      BY BrokerInit
<1>2. BrokerInv /\ [Next]_vars => BrokerInv'
      BY BrokerNext
<1> QED BY <1>1, <1>2, PTL DEF Spec

(* Every variable of the broker keeps its type, whatever peers send.       *)
THEOREM BrokerTypes == Spec => []TypeOK
BY BrokerInvariant, BrokerInvSafe, PTL

(* No handler, error path or exit leaks a descriptor or closes one that is *)
(* still in use, for any number of connections and any descriptor limit.   *)
THEOREM NoDescriptorLeaks == Spec => []DescriptorsOwned
BY BrokerInvariant, BrokerInvSafe, PTL

(* The creator of a generation under construction is the connection that   *)
(* was handed its memory, although descriptor numbers are reused.          *)
THEOREM CreatorNeverReused == Spec => []CreatorConnected
BY BrokerInvariant, BrokerInvSafe, PTL

(* No client is served with the poll result of another, although closing   *)
(* one moves the last into its place.                                      *)
THEOREM ServedWithOwnEvents == Spec => []PollAligned
BY BrokerInvariant, BrokerInvSafe, PTL

(* A published generation outlives every message, failure and disconnect   *)
(* until the broker itself ends.                                           *)
THEOREM PublishedRetained == Spec => Retained
<1>1. [Next]_vars => [generation.state = "READY" /\ pc' # "exited"
                          => generation' = generation]_vars
      BY RetainedNext
<1> QED BY <1>1, PTL DEF Spec, Retained

(* A generation is published only together with the acknowledgement its    *)
(* creator is sent: a creator that cannot be told publishes nothing.       *)
THEOREM PublicationAcknowledged == Spec => PublishedAcknowledged
<1>1. BrokerInv /\ [Next]_vars =>
          [generation.state = "INITIALIZING" /\ generation'.state = "READY" =>
               \E c \in Conns :
                   /\ fd_table[generation.creator_fd] = Socket(c)
                   /\ replies'[c] = Append(replies[c],
                                     ahe_broker_message_init("ACK"))]_vars
      BY AcknowledgedNext
<1> QED BY <1>1, BrokerInvariant, PTL DEF Spec, PublishedAcknowledged

=============================================================================
