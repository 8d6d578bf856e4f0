------------------------- MODULE AheProvider_proofs --------------------------
(***************************************************************************)
(* What one process owns, for any sizes, offsets and combinations of       *)
(* faults: the client's fields never promise something that the process    *)
(* no longer has.                                                          *)
(***************************************************************************)
EXTENDS AheProvider, TLAPS

BothFaults == "munmap" \in faults /\ "offset" \in faults

(* The client's fields against what the process really has.                *)
FieldsTrue ==
    /\ ~own.stray
    /\ own.open = own.fds
    /\ own.mapping => own.mapped
    /\ own.mapped /\ ~own.mapping => "munmap" \in faults
    /\ own.heap = "twice" => BothFaults
    /\ ~(own.creator /\ own.reattached)

(* The block and the mapping on the way to an allocation.                  *)
AllocationAt ==
    /\ at \in {"create", "exchange", "map", "allocate"} =>
          /\ own.heap = "none" /\ ~own.segment_allocation
          /\ ~own.reattached /\ ~own.creator
    /\ at = "exchange" => own.fds = {"socket"}
    /\ at \in {"create", "exchange", "map"} => ~own.mapped
    /\ at \in {"allocate", "validate", "cleanup"} => own.mapping
    /\ at \in {"map", "allocate", "validate", "cleanup"} =>
          own.fds = Descriptors
    /\ at \in {"validate", "cleanup"} =>
          own.heap = "live" /\ own.segment_allocation
    /\ at = "cleanup" => own.reattached /\ "offset" \in faults
    /\ at = "refused" =>
          /\ own.heap \in {"none", "freed"}
          /\ own.segment_allocation => BothFaults
    /\ at \in {"native", "ended"} =>
          own.fds = {} /\ own.heap # "live" /\ ~own.mapping

(* The reply that is worked on passed the client's own checks.             *)
ResponseChecked ==
    at \in {"map", "allocate", "validate"} =>
        /\ response \in Response
        /\ response.type \in {"CREATE", "ATTACH"}
        /\ response.type = "ATTACH" => response.offset < MappingSize
        /\ Misfit(response) => "offset" \in faults
        /\ at = "validate" =>
              own.reattached = (response.type = "ATTACH")

(* While OPcache uses the memory.                                          *)
InUse ==
    /\ opcache.active <=> at \in {"starting", "running", "aborted", "exited"}
    /\ opcache.lock_file <=> opcache.active
    /\ opcache.active =>
          /\ own.mapping /\ own.fds = Descriptors
          /\ IF own.reattached THEN own.segment_allocation /\ own.heap = "live"
                               ELSE own.heap = "freed"
          /\ own.reattached =>
                opcache.globals + GlobalsSize <= MappingSize

(* What OPcache began and what the provider heard of it.                   *)
Reports ==
    /\ opcache.active =>
          /\ accepted = 1
          /\ reported = IF opcache.finished THEN 1 ELSE 0
    /\ at = "starting" => ~opcache.finished
    /\ at \in {"running", "aborted"} => opcache.finished
    /\ at = "ended" => reported = accepted
    /\ ~opcache.active /\ at # "ended" => accepted = 0 /\ reported = 0

ProviderInv ==
    /\ ProviderTypeOK
    /\ FieldsTrue
    /\ AllocationAt
    /\ ResponseChecked
    /\ InUse
    /\ Reports

(* A process starts with nothing.                                         *)
LEMMA ProviderInit == Init => ProviderInv
BY ProviderAssumption
   DEF Init, ProviderInv, ProviderTypeOK, FieldsTrue, AllocationAt,
       ResponseChecked, InUse, Reports, AHE_BROKER_CLIENT_INITIALIZER,
       Ownership, NoResponse, Allocator, Places, Descriptors

-----------------------------------------------------------------------------
(* What the client's functions do to each field.                           *)

(* free() changes the block and nothing else.                              *)
LEMMA FreeOwn ==
    ASSUME NEW o \in Ownership
    PROVE  LET c == Free(o)
           IN  /\ c \in Ownership
               /\ c.heap = IF o.heap = "live" THEN "freed" ELSE "twice"
               /\ c.fds = o.fds /\ c.open = o.open /\ c.stray = o.stray
               /\ c.mapping = o.mapping /\ c.mapped = o.mapped
               /\ c.segment_allocation = o.segment_allocation
               /\ c.creator = o.creator /\ c.reattached = o.reattached
BY DEF Free, Ownership

(* munmap() changes the mapping, and is stray when there is none.          *)
LEMMA UnmapOwn ==
    ASSUME NEW o \in Ownership, NEW unmaps \in BOOLEAN
    PROVE  LET c == munmap(o, unmaps)
           IN  /\ c \in Ownership
               /\ c.mapped = (o.mapped /\ ~unmaps)
               /\ c.stray = (o.stray \/ ~o.mapped)
               /\ c.fds = o.fds /\ c.open = o.open /\ c.heap = o.heap
               /\ c.mapping = o.mapping
               /\ c.segment_allocation = o.segment_allocation
               /\ c.creator = o.creator /\ c.reattached = o.reattached
BY DEF munmap, Ownership

(* Every descriptor of the client is closed.                               *)
LEMMA CloseOwn ==
    ASSUME NEW o \in Ownership
    PROVE  LET c == ahe_broker_client_close_descriptors(o)
           IN  /\ c \in Ownership
               /\ c.fds = {} /\ c.open = o.open \ o.fds
               /\ c.stray = (o.stray \/ ~(o.fds \subseteq o.open))
               /\ c.mapping = o.mapping /\ c.mapped = o.mapped
               /\ c.heap = o.heap
               /\ c.segment_allocation = o.segment_allocation
               /\ c.creator = o.creator /\ c.reattached = o.reattached
<1>1. o.fds \in SUBSET Descriptors /\ o.open \in SUBSET Descriptors
    BY DEF Ownership
<1> DEFINE rest == o.open \ o.fds
           bad == ~(o.fds \subseteq o.open)
<1>2. /\ rest \in SUBSET Descriptors /\ {} \in SUBSET Descriptors
      /\ bad \in BOOLEAN
    BY <1>1
<1>3. ahe_broker_client_close_descriptors(o) =
          [o EXCEPT !.open = rest, !.fds = {}, !.stray = o.stray \/ bad]
    BY DEF ahe_broker_client_close_descriptors, Ownership
<1> HIDE DEF rest, bad
<1>4. LET c == ahe_broker_client_close_descriptors(o)
      IN  /\ c \in Ownership
          /\ c.fds = {} /\ c.open = rest
          /\ c.stray = (o.stray \/ bad)
          /\ c.mapping = o.mapping /\ c.mapped = o.mapped
          /\ c.heap = o.heap
          /\ c.segment_allocation = o.segment_allocation
          /\ c.creator = o.creator /\ c.reattached = o.reattached
    BY <1>2, <1>3 DEF Ownership
<1> QED
    BY <1>4 DEF rest, bad

(* Closing what is open is not stray, and leaves nothing open.             *)
LEMMA CloseAll ==
    ASSUME NEW o \in Ownership, o.open = o.fds
    PROVE  LET c == ahe_broker_client_close_descriptors(o)
           IN  c.open = {} /\ c.stray = o.stray
<1>1. o.open \ o.fds = {} /\ o.fds \subseteq o.open
    OBVIOUS
<1>2. o.stray \in BOOLEAN
    BY DEF Ownership
<1> QED
    BY <1>1, <1>2, CloseOwn

(* A detach that succeeds gives the memory back; the block stays the       *)
(* client's unless it was the one that was passed.                         *)
LEMMA DetachOwn ==
    ASSUME NEW o \in Ownership, NEW owned \in BOOLEAN, NEW unmaps \in BOOLEAN
    PROVE  LET c == ahe_broker_client_detach(o, owned, unmaps)
           IN  /\ c \in Ownership
               /\ c.mapping = (o.mapping /\ ~unmaps)
               /\ c.mapped = (o.mapped /\ ~unmaps)
               /\ c.stray = (o.stray \/ (unmaps /\ ~o.mapped))
               /\ c.segment_allocation =
                      (o.segment_allocation /\ ~(unmaps /\ owned))
               /\ c.fds = o.fds /\ c.open = o.open /\ c.heap = o.heap
               /\ c.creator = o.creator /\ c.reattached = o.reattached
<1>1. CASE unmaps
  <2> DEFINE m == munmap(o, TRUE)
  <2>1. /\ m \in Ownership
        /\ m.mapped = FALSE /\ m.stray = (o.stray \/ ~o.mapped)
        /\ m.fds = o.fds /\ m.open = o.open /\ m.heap = o.heap
        /\ m.segment_allocation = o.segment_allocation
        /\ m.creator = o.creator /\ m.reattached = o.reattached
      BY UnmapOwn
  <2>2. ahe_broker_client_detach(o, owned, unmaps) =
            [m EXCEPT !.mapping = FALSE,
                      !.segment_allocation = m.segment_allocation /\ ~owned]
      BY <1>1, <2>1 DEF ahe_broker_client_detach, Ownership
  <2> HIDE DEF m
  <2> QED
      BY <1>1, <2>1, <2>2 DEF Ownership
<1>2. CASE ~unmaps
    BY <1>2 DEF ahe_broker_client_detach, Ownership
<1> QED
    BY <1>1, <1>2

(* Resetting the client forgets its fields, and what is really held stays. *)
LEMMA ResetOwn ==
    ASSUME NEW o \in Ownership
    PROVE  LET c == Reset(o)
           IN  /\ c \in Ownership
               /\ c.fds = {} /\ ~c.mapping /\ ~c.segment_allocation
               /\ ~c.creator /\ ~c.reattached
               /\ c.open = o.open /\ c.mapped = o.mapped
               /\ c.heap = o.heap /\ c.stray = o.stray
BY DEF Reset, AHE_BROKER_CLIENT_INITIALIZER, Ownership

(* A client whose fields are true gives back all it holds, but for memory  *)
(* that munmap() did not give back.                                        *)
LEMMA ShutdownOwn ==
    ASSUME NEW o \in Ownership, NEW unmaps \in BOOLEAN,
           ~o.stray, o.open = o.fds, o.mapping => o.mapped
    PROVE  LET c == ahe_broker_client_shutdown(o, unmaps)
           IN  /\ c \in Ownership
               /\ c.fds = {} /\ c.open = {} /\ ~c.mapping /\ ~c.stray
               /\ ~c.segment_allocation /\ ~c.creator /\ ~c.reattached
               /\ c.mapped = (o.mapped /\ ~(o.mapping /\ unmaps))
               /\ c.heap = IF o.reattached /\ o.segment_allocation
                           THEN IF o.heap = "live" THEN "freed" ELSE "twice"
                           ELSE o.heap
<1> DEFINE u == IF o.mapping THEN munmap(o, unmaps) ELSE o
           f == IF o.reattached /\ o.segment_allocation THEN Free(u) ELSE u
           c == ahe_broker_client_close_descriptors(f)
<1>1. /\ u \in Ownership
      /\ u.mapped = (o.mapped /\ ~(o.mapping /\ unmaps))
      /\ u.stray = FALSE
      /\ u.fds = o.fds /\ u.open = o.open /\ u.heap = o.heap
  <2>1. o.mapping \in BOOLEAN /\ o.mapped \in BOOLEAN /\ o.stray \in BOOLEAN
      BY DEF Ownership
  <2>2. CASE o.mapping
      BY <2>1, <2>2, UnmapOwn
  <2>3. CASE ~o.mapping
      BY <2>1, <2>3
  <2> QED
      BY <2>2, <2>3
<1> HIDE DEF u
<1>2. /\ f \in Ownership
      /\ f.heap = IF o.reattached /\ o.segment_allocation
                  THEN IF u.heap = "live" THEN "freed" ELSE "twice"
                  ELSE u.heap
      /\ f.mapped = u.mapped /\ f.stray = FALSE
      /\ f.fds = u.fds /\ f.open = u.open
    BY <1>1, FreeOwn
<1> HIDE DEF f
<1>3. /\ c \in Ownership
      /\ c.open = {} /\ c.stray = FALSE
      /\ c.mapped = f.mapped /\ c.heap = f.heap
    BY <1>1, <1>2, CloseOwn, CloseAll
<1> HIDE DEF c
<1>4. ahe_broker_client_shutdown(o, unmaps) = Reset(c)
    BY DEF ahe_broker_client_shutdown, u, f, c
<1> QED
    BY <1>1, <1>2, <1>3, <1>4, ResetOwn

(* Boolean results of munmap(), and none that fails without the fault.     *)
LEMMA UnmapResults ==
    ASSUME NEW unmaps \in Unmaps
    PROVE  unmaps \in BOOLEAN /\ (~unmaps => "munmap" \in faults)
BY DEF Unmaps

-----------------------------------------------------------------------------
(* What the process has while it waits for a reply.                        *)
Waiting == own \in Ownership /\ own.fds = {"socket"} /\ own.open = {"socket"}

(* A reply's descriptors are closed one by one, and the process has what   *)
(* it had.                                                                 *)
LEMMA ReceivedClosed ==
    ASSUME Waiting, NEW count
    PROVE  ahe_broker_close_received_fds(Receives(count), count) = own
<1> DEFINE got == received_fds(count)
           arrived == Receives(count)
           rest == arrived.open \ got
           bad == arrived.stray \/ ~(got \subseteq arrived.open)
<1>1. got \subseteq {"cache", "lock"}
    BY DEF received_fds
<1> HIDE DEF got
<1>2. /\ arrived = [own EXCEPT !.open = own.open \cup got]
      /\ own \in Ownership
    BY DEF Receives, got, Waiting
<1>3. arrived.open = {"socket"} \cup got /\ arrived.stray = own.stray
    BY <1>2 DEF Waiting, Ownership
<1> HIDE DEF arrived
<1>4. rest = own.open
    BY <1>1, <1>3 DEF Waiting
<1>5. bad = own.stray
  <2>1. got \subseteq arrived.open
      BY <1>3
  <2>2. own.stray \in BOOLEAN
      BY <1>2 DEF Ownership
  <2> QED BY <1>3, <2>1, <2>2
<1>6. ahe_broker_close_received_fds(arrived, count)
        = [arrived EXCEPT !.open = rest, !.stray = bad]
    BY DEF ahe_broker_close_received_fds, got
<1> HIDE DEF rest, bad
<1>7. [arrived EXCEPT !.open = own.open, !.stray = own.stray] = own
    BY <1>2 DEF Ownership
<1> QED BY <1>4, <1>5, <1>6, <1>7 DEF arrived

(* A refused reply leaves nothing behind but what closing leaves.          *)
LEMMA RefusesAll ==
    ASSUME ProviderInv, at = "exchange", NEW count
    PROVE  Refuses(count) = ahe_broker_client_close_descriptors(own)
<1>1. Waiting
    BY DEF Waiting, ProviderInv, ProviderTypeOK, FieldsTrue, AllocationAt
<1> QED BY <1>1, ReceivedClosed DEF Refuses

(* An accepted reply's descriptors are the client's.                       *)
LEMMA StoredOwn ==
    ASSUME ProviderInv, at = "exchange"
    PROVE  /\ Stored \in Ownership
           /\ Stored.fds = Descriptors /\ Stored.open = Descriptors
           /\ Stored.mapping = own.mapping /\ Stored.mapped = own.mapped
           /\ Stored.segment_allocation = own.segment_allocation
           /\ Stored.heap = own.heap /\ Stored.stray = own.stray
           /\ Stored.creator = own.creator
           /\ Stored.reattached = own.reattached
<1>1. Waiting
    BY DEF Waiting, ProviderInv, ProviderTypeOK, FieldsTrue, AllocationAt
<1>2. received_fds(2) = {"cache", "lock"}
    BY DEF received_fds
<1>3. {"socket"} \cup received_fds(2) = Descriptors
    BY <1>2 DEF Descriptors
<1>4. Stored = [own EXCEPT !.open = Descriptors, !.fds = Descriptors]
    BY <1>1, <1>3 DEF Stored, Receives, Waiting, Ownership
<1>5. own \in Ownership /\ Descriptors \in SUBSET Descriptors
    BY <1>1 DEF Waiting
<1> QED BY <1>4, <1>5 DEF Ownership

(* Every step of the process keeps the fields true.                        *)
LEMMA ProviderStep == ProviderInv /\ [Next]_providerVars => ProviderInv'
<1> SUFFICES ASSUME ProviderInv, [Next]_providerVars
             PROVE  ProviderInv'
    OBVIOUS
<1> USE ProviderAssumption DEF ProviderInv
<1>1. CASE NotConfigured
  <2>1. ProviderTypeOK'
      BY <1>1 DEF NotConfigured, Fails, Go, ProviderTypeOK, Places, Reports,
         InUse
  <2>2. FieldsTrue'
      BY <1>1 DEF NotConfigured, Fails, Go, ProviderTypeOK, FieldsTrue,
         AllocationAt, InUse, BothFaults
  <2>3. AllocationAt'
      BY <1>1 DEF NotConfigured, Fails, Go, ProviderTypeOK, FieldsTrue,
         AllocationAt, InUse, BothFaults, Descriptors
  <2>4. ResponseChecked'
      BY <1>1 DEF NotConfigured, Fails, Go, ResponseChecked
  <2>5. InUse'
      BY <1>1 DEF NotConfigured, Fails, Go, ProviderTypeOK, FieldsTrue,
         AllocationAt, InUse, Ownership, Allocator
  <2>6. Reports'
      BY <1>1 DEF NotConfigured, Fails, Go, ProviderTypeOK, InUse, Reports
  <2> QED
      BY <2>1, <2>2, <2>3, <2>4, <2>5, <2>6
<1>2. CASE ahe_broker_connect
  <2>0. \/ /\ own' \in Ownership /\ at' = "exchange"
           /\ own'.fds = {"socket"} /\ own'.open = {"socket"}
           /\ own'.mapping = own.mapping /\ own'.mapped = own.mapped
           /\ own'.segment_allocation = own.segment_allocation
           /\ own'.heap = own.heap /\ own'.stray = own.stray
           /\ own'.creator = own.creator /\ own'.reattached = own.reattached
           /\ response' = response
        \/ own' = own /\ at' = "refused" /\ response' = NoResponse
    <3>1. CASE /\ own' = [own EXCEPT !.fds = {"socket"}, !.open = {"socket"}]
               /\ Go("exchange") /\ UNCHANGED response
      <4>1. {"socket"} \in SUBSET Descriptors
          BY DEF Descriptors
      <4> QED
          BY <3>1, <4>1 DEF Go, ProviderTypeOK, Ownership
    <3>2. CASE Fails(own)
        BY <3>2 DEF Fails, Go
    <3> QED
        BY <1>2, <3>1, <3>2 DEF ahe_broker_connect
  <2>1. ProviderTypeOK'
      BY <1>2, <2>0 DEF ahe_broker_connect, Fails, Go, ProviderTypeOK,
         Places, Reports, InUse
  <2>2. FieldsTrue'
      BY <1>2, <2>0 DEF ahe_broker_connect, Fails, Go, ProviderTypeOK,
         FieldsTrue, AllocationAt, InUse, BothFaults
  <2>3. AllocationAt'
      BY <1>2, <2>0 DEF ahe_broker_connect, Fails, Go, ProviderTypeOK,
         FieldsTrue, AllocationAt, InUse, BothFaults, Descriptors
  <2>4. ResponseChecked'
      BY <1>2, <2>0 DEF ahe_broker_connect, Fails, Go, ResponseChecked
  <2>5. InUse'
      BY <1>2, <2>0 DEF ahe_broker_connect, Fails, Go, ProviderTypeOK,
         FieldsTrue, AllocationAt, InUse, Ownership, Allocator
  <2>6. Reports'
      BY <1>2, <2>0 DEF ahe_broker_connect, Fails, Go, ProviderTypeOK,
         InUse, Reports
  <2> QED
      BY <2>1, <2>2, <2>3, <2>4, <2>5, <2>6
<1>3. CASE NoReply
  <2>0. /\ own' \in Ownership /\ own'.fds = {} /\ own'.open = {}
        /\ own'.mapping = own.mapping /\ own'.mapped = own.mapped
        /\ own'.segment_allocation = own.segment_allocation
        /\ own'.heap = own.heap /\ own'.stray = own.stray
        /\ own'.creator = own.creator /\ own'.reattached = own.reattached
        /\ at' = "refused" /\ response' = NoResponse
    <3>1. Fails(ahe_broker_client_close_descriptors(own))
      <4>1. PICK count \in 0 .. 2 : Fails(Refuses(count))
          BY <1>3 DEF NoReply
      <4> QED
          BY <1>3, <4>1, RefusesAll DEF NoReply
    <3> QED
        BY <3>1, CloseOwn, CloseAll
           DEF Fails, Go, ProviderTypeOK, FieldsTrue
  <2>1. ProviderTypeOK'
      BY <1>3, <2>0 DEF NoReply, Fails, Go, ProviderTypeOK, Places, Reports,
         InUse
  <2>2. FieldsTrue'
      BY <1>3, <2>0 DEF NoReply, Fails, Go, ProviderTypeOK, FieldsTrue,
         AllocationAt, InUse, BothFaults
  <2>3. AllocationAt'
      BY <1>3, <2>0 DEF NoReply, Fails, Go, ProviderTypeOK, FieldsTrue,
         AllocationAt, InUse, BothFaults, Descriptors
  <2>4. ResponseChecked'
      BY <1>3, <2>0 DEF NoReply, Fails, Go, ResponseChecked
  <2>5. InUse'
      BY <1>3, <2>0 DEF NoReply, Fails, Go, ProviderTypeOK, FieldsTrue,
         AllocationAt, InUse, Ownership, Allocator
  <2>6. Reports'
      BY <1>3, <2>0 DEF NoReply, Fails, Go, ProviderTypeOK, InUse, Reports
  <2> QED
      BY <2>1, <2>2, <2>3, <2>4, <2>5, <2>6
<1>4. CASE Reply
  <2>a. /\ Stored \in Ownership
        /\ Stored.fds = Descriptors /\ Stored.open = Descriptors
        /\ Stored.mapping = own.mapping /\ Stored.mapped = own.mapped
        /\ Stored.segment_allocation = own.segment_allocation
        /\ Stored.heap = own.heap /\ Stored.stray = own.stray
        /\ Stored.creator = own.creator /\ Stored.reattached = own.reattached
      BY <1>4, StoredOwn DEF Reply
  <2>0. /\ own' \in Ownership
        /\ own'.mapping = own.mapping /\ own'.mapped = own.mapped
        /\ own'.segment_allocation = own.segment_allocation
        /\ own'.heap = own.heap /\ own'.stray = own.stray
        /\ own'.creator = own.creator /\ own'.reattached = own.reattached
        /\ \/ /\ own'.fds = Descriptors /\ own'.open = Descriptors
              /\ at' = "map" /\ response' \in Response
              /\ response'.type \in {"CREATE", "ATTACH"}
              /\ response'.type = "ATTACH" => response'.offset < MappingSize
              /\ Misfit(response') => "offset" \in faults
           \/ /\ own'.fds = {} /\ own'.open = {}
              /\ at' = "refused" /\ response' = NoResponse
    <3>1. PICK r \in Response :
              /\ Misfit(r) => "offset" \in faults
              /\ IF Usable(r) /\ ~BadMetadata(r)
                 THEN own' = Stored /\ response' = r /\ Go("map")
                 ELSE Fails(IF Usable(r)
                            THEN ahe_broker_client_close_descriptors(Stored)
                            ELSE Refuses(r.fds))
        BY <1>4 DEF Reply
    <3>2. CASE Usable(r) /\ ~BadMetadata(r)
      <4>1. r.offset \in Nat
          BY DEF Response
      <4> QED
          BY <2>a, <3>1, <3>2, <4>1 DEF Go, Usable, BadMetadata
    <3>3. CASE Usable(r) /\ BadMetadata(r)
        BY <2>a, <3>1, <3>3, CloseOwn, CloseAll DEF Fails, Go
    <3>4. CASE ~Usable(r)
      <4>1. Fails(ahe_broker_client_close_descriptors(own))
          BY <1>4, <3>1, <3>4, RefusesAll DEF Reply
      <4> QED
          BY <4>1, CloseOwn, CloseAll
             DEF Fails, Go, ProviderTypeOK, FieldsTrue
    <3> QED
        BY <3>2, <3>3, <3>4
  <2>b. /\ at = "exchange" /\ faults' = faults
        /\ UNCHANGED <<opcache, accepted, reported>>
      BY <1>4 DEF Reply, Fails, Go
  <2>1. ProviderTypeOK'
      BY <2>a, <2>0, <2>b DEF Misfit, ProviderTypeOK, Places, Reports, InUse
  <2>2. FieldsTrue'
      BY <2>a, <2>0, <2>b DEF Misfit, ProviderTypeOK, FieldsTrue,
         AllocationAt, InUse, BothFaults
  <2>3. AllocationAt'
      BY <2>a, <2>0, <2>b DEF Misfit, ProviderTypeOK, FieldsTrue,
         AllocationAt, InUse, BothFaults, Descriptors
  <2>4. ResponseChecked'
      BY <2>a, <2>0, <2>b DEF Misfit, ResponseChecked
  <2>5. InUse'
      BY <2>a, <2>0, <2>b DEF Misfit, ProviderTypeOK, FieldsTrue,
         AllocationAt, InUse, Ownership, Allocator
  <2>6. Reports'
      BY <2>a, <2>0, <2>b DEF Misfit, ProviderTypeOK, InUse, Reports
  <2> QED
      BY <2>1, <2>2, <2>3, <2>4, <2>5, <2>6
<1>5. CASE MapCache
  <2>0. /\ own' \in Ownership
        /\ own'.segment_allocation = own.segment_allocation
        /\ own'.heap = own.heap /\ own'.stray = own.stray
        /\ own'.creator = own.creator /\ own'.reattached = own.reattached
        /\ \/ /\ own'.fds = own.fds /\ own'.open = own.open
              /\ own'.mapping = TRUE /\ own'.mapped = TRUE
              /\ at' = "allocate" /\ response' = response
           \/ /\ own'.fds = {} /\ own'.open = {}
              /\ own'.mapping = own.mapping
              /\ own'.mapped => own.mapped \/ "munmap" \in faults
              /\ at' = "refused" /\ response' = NoResponse
    <3> DEFINE c == ahe_broker_client_close_descriptors(own)
    <3>1. /\ c \in Ownership /\ c.fds = {} /\ c.open = {}
          /\ c.segment_allocation = own.segment_allocation
          /\ c.heap = own.heap /\ c.stray = own.stray
          /\ c.creator = own.creator /\ c.reattached = own.reattached
          /\ c.mapping = own.mapping /\ c.mapped = own.mapped
        BY CloseOwn, CloseAll DEF ProviderTypeOK, FieldsTrue
    <3> HIDE DEF c
    <3>2. CASE /\ own' = [own EXCEPT !.mapping = TRUE, !.mapped = TRUE]
               /\ Go("allocate") /\ UNCHANGED response
        BY <3>2 DEF Go, ProviderTypeOK, Ownership
    <3>3. CASE Fails(c)
        BY <3>1, <3>3 DEF Fails, Go, Ownership
    <3>4. CASE \E unmaps \in Unmaps : Fails([c EXCEPT !.mapped = ~unmaps])
      <4>1. PICK unmaps \in Unmaps : Fails([c EXCEPT !.mapped = ~unmaps])
          BY <3>4
      <4>2. (~unmaps) \in BOOLEAN /\ (~unmaps => "munmap" \in faults)
          BY UnmapResults
      <4> QED
          BY <3>1, <4>1, <4>2 DEF Fails, Go, Ownership
    <3> QED
        BY <1>5, <3>2, <3>3, <3>4 DEF MapCache, c
  <2>1. ProviderTypeOK'
      BY <1>5, <2>0 DEF MapCache, Go, Fails, Misfit, Response, NoResponse,
         ProviderTypeOK, Places, Reports, InUse
  <2>2. FieldsTrue'
      BY <1>5, <2>0 DEF MapCache, Go, Fails, Misfit, Response, NoResponse,
         ProviderTypeOK, FieldsTrue, AllocationAt, InUse, BothFaults
  <2>3. AllocationAt'
      BY <1>5, <2>0 DEF MapCache, Go, Fails, Misfit, Response, NoResponse,
         ProviderTypeOK, FieldsTrue, AllocationAt, InUse, BothFaults,
         Descriptors
  <2>4. ResponseChecked'
      BY <1>5, <2>0 DEF MapCache, Go, Fails, Misfit, Response, NoResponse,
         ResponseChecked
  <2>5. InUse'
      BY <1>5, <2>0 DEF MapCache, Go, Fails, Misfit, Response, NoResponse,
         ProviderTypeOK, FieldsTrue, AllocationAt, InUse, Ownership,
         Allocator
  <2>6. Reports'
      BY <1>5, <2>0 DEF MapCache, Go, Fails, Misfit, Response, NoResponse,
         ProviderTypeOK, InUse, Reports
  <2> QED
      BY <2>1, <2>2, <2>3, <2>4, <2>5, <2>6
<1>6. CASE ahe_broker_allocate_segment
  <2>0. \/ /\ own' \in Ownership
           /\ own'.fds = own.fds /\ own'.open = own.open
           /\ own'.mapping = own.mapping /\ own'.mapped = own.mapped
           /\ own'.stray = own.stray
           /\ own'.segment_allocation = TRUE /\ own'.heap = "live"
           /\ own'.creator = (response.type = "CREATE")
           /\ own'.reattached = (response.type = "ATTACH")
           /\ at' = "validate" /\ response' = response
        \/ /\ own' \in Ownership
           /\ own'.fds = {} /\ own'.open = {} /\ own'.stray = own.stray
           /\ own'.mapping = FALSE
           /\ own'.mapped => "munmap" \in faults
           /\ own'.segment_allocation = own.segment_allocation
           /\ own'.heap = own.heap
           /\ own'.creator = own.creator /\ own'.reattached = own.reattached
           /\ at' = "refused" /\ response' = NoResponse
    <3>1. CASE /\ own' = [own EXCEPT !.segment_allocation = TRUE,
                                     !.heap = "live",
                                     !.creator = response.type = "CREATE",
                                     !.reattached = response.type = "ATTACH",
                                     !.acquired = TRUE]
               /\ Go("validate") /\ UNCHANGED response
        BY <3>1 DEF Go, ProviderTypeOK, Ownership
    <3>2. CASE \E unmaps \in Unmaps : Fails(CallocFails(unmaps))
      <4>1. PICK unmaps \in Unmaps : Fails(CallocFails(unmaps))
          BY <3>2
      <4>2. unmaps \in BOOLEAN /\ (~unmaps => "munmap" \in faults)
          BY UnmapResults
      <4> DEFINE m == munmap(own, unmaps)
                 c == ahe_broker_client_close_descriptors(m)
      <4>3. /\ m \in Ownership
            /\ m.mapped = (own.mapped /\ ~unmaps) /\ m.stray = own.stray
            /\ m.fds = own.fds /\ m.open = own.fds
            /\ m.segment_allocation = own.segment_allocation
            /\ m.heap = own.heap
            /\ m.creator = own.creator /\ m.reattached = own.reattached
        <5>1. /\ own \in Ownership /\ own.mapped /\ ~own.stray
              /\ own.open = own.fds
            BY <1>6 DEF ahe_broker_allocate_segment, ProviderTypeOK,
                        FieldsTrue, AllocationAt
        <5>2. own.stray \in BOOLEAN /\ m.stray = (own.stray \/ ~own.mapped)
            BY <4>2, <5>1, UnmapOwn DEF Ownership
        <5>3. m.stray = own.stray
            BY <5>1, <5>2
        <5> QED BY <4>2, <5>1, <5>3, UnmapOwn
      <4> HIDE DEF m
      <4>4. /\ c \in Ownership /\ c.fds = {} /\ c.open = {}
            /\ c.mapped = m.mapped /\ c.stray = m.stray
            /\ c.segment_allocation = m.segment_allocation
            /\ c.heap = m.heap
            /\ c.creator = m.creator /\ c.reattached = m.reattached
          BY <4>3, CloseOwn, CloseAll
      <4>5. CallocFails(unmaps) = [c EXCEPT !.mapping = FALSE]
          BY DEF CallocFails, m
      <4> HIDE DEF c
      <4> QED
          BY <4>1, <4>2, <4>3, <4>4, <4>5 DEF Fails, Go, Ownership
    <3> QED
        BY <1>6, <3>1, <3>2 DEF ahe_broker_allocate_segment
  <2>1. ProviderTypeOK'
      BY <1>6, <2>0 DEF ahe_broker_allocate_segment, Fails, Go, Misfit,
         Response, NoResponse, ProviderTypeOK, Places, Reports, InUse
  <2>2. FieldsTrue'
      BY <1>6, <2>0 DEF ahe_broker_allocate_segment, Fails, Go, Misfit,
         Response, NoResponse, ProviderTypeOK, FieldsTrue, AllocationAt,
         InUse, BothFaults
  <2>3. AllocationAt'
      BY <1>6, <2>0 DEF ahe_broker_allocate_segment, Fails, Go, Misfit,
         Response, NoResponse, ProviderTypeOK, FieldsTrue, AllocationAt,
         InUse, BothFaults, Descriptors
  <2>4. ResponseChecked'
      BY <1>6, <2>0 DEF ahe_broker_allocate_segment, Fails, Go, Misfit,
         Response, NoResponse, ResponseChecked
  <2>5. InUse'
      BY <1>6, <2>0 DEF ahe_broker_allocate_segment, Fails, Go, Misfit,
         Response, NoResponse, ProviderTypeOK, FieldsTrue, AllocationAt,
         InUse, Ownership, Allocator
  <2>6. Reports'
      BY <1>6, <2>0 DEF ahe_broker_allocate_segment, Fails, Go, Misfit,
         Response, NoResponse, ProviderTypeOK, InUse, Reports
  <2> QED
      BY <2>1, <2>2, <2>3, <2>4, <2>5, <2>6
<1>7. CASE zend_shared_alloc_provider_create_segments
  <2>0. \/ /\ Acceptable /\ at' = "starting"
           /\ own' \in Ownership
           /\ own'.fds = own.fds /\ own'.open = own.open
           /\ own'.mapping = own.mapping /\ own'.mapped = own.mapped
           /\ own'.stray = own.stray
           /\ own'.segment_allocation = own.segment_allocation
           /\ own'.heap = IF own.reattached THEN "live" ELSE "freed"
           /\ own'.creator = own.creator /\ own'.reattached = own.reattached
           /\ opcache' \in Allocator
           /\ opcache'.active = TRUE /\ opcache'.finished = FALSE
           /\ opcache'.lock_file = TRUE
           /\ opcache'.globals = response.offset
           /\ accepted' = accepted + 1
        \/ /\ ~Acceptable /\ at' = "cleanup"
           /\ own' = own /\ opcache' = opcache /\ accepted' = accepted
    <3>1. CASE Acceptable
      <4>1. own.heap = "live" /\ response.offset \in Offsets
          BY <1>7 DEF zend_shared_alloc_provider_create_segments,
             AllocationAt, ResponseChecked, Response
      <4>2. own' = IF own.reattached THEN own ELSE Free(own)
          BY <1>7, <3>1 DEF zend_shared_alloc_provider_create_segments
      <4>3. /\ opcache' \in Allocator
            /\ opcache'.active = TRUE /\ opcache'.finished = FALSE
            /\ opcache'.lock_file = TRUE
            /\ opcache'.globals = response.offset
        <5>1. opcache' = [opcache EXCEPT
                            !.active = TRUE, !.finished = FALSE,
                            !.lock_file = TRUE, !.globals = response.offset]
            BY <1>7, <3>1 DEF zend_shared_alloc_provider_create_segments
        <5> QED
            BY <4>1, <5>1 DEF ProviderTypeOK, Allocator
      <4>4. at' = "starting" /\ accepted' = accepted + 1
          BY <1>7, <3>1
             DEF zend_shared_alloc_provider_create_segments, Go
      <4> QED
          BY <3>1, <4>1, <4>2, <4>3, <4>4, FreeOwn DEF ProviderTypeOK
    <3>2. CASE ~Acceptable
        BY <1>7, <3>2
           DEF zend_shared_alloc_provider_create_segments, Go
    <3> QED
        BY <3>1, <3>2
  <2>b. own.reattached =>
            /\ response.type = "ATTACH" /\ response.offset \in Nat
            /\ response.offset < MappingSize
            /\ Misfit(response) => "offset" \in faults
      BY <1>7 DEF zend_shared_alloc_provider_create_segments,
         ResponseChecked, Response
  <2>c. Acceptable <=> (own.reattached => ~Misfit(response))
      BY <1>7, <2>b DEF zend_shared_alloc_provider_create_segments,
         Acceptable, AllocationAt, Misfit, Descriptors,
         zend_shared_alloc_provider_segments_are_valid,
         zend_shared_alloc_provider_segment_contains
  <2>1. ProviderTypeOK'
      BY <1>7, <2>0, <2>b, <2>c DEF
         zend_shared_alloc_provider_create_segments, Go, Misfit,
         ProviderTypeOK, Places, Reports, InUse
  <2>2. FieldsTrue'
      BY <1>7, <2>0, <2>b, <2>c DEF
         zend_shared_alloc_provider_create_segments, Go, Misfit,
         ProviderTypeOK, FieldsTrue, AllocationAt, InUse, BothFaults
  <2>3. AllocationAt'
      BY <1>7, <2>0, <2>b, <2>c DEF
         zend_shared_alloc_provider_create_segments, Go, Misfit,
         ProviderTypeOK, FieldsTrue, AllocationAt, InUse, BothFaults,
         Descriptors
  <2>4. ResponseChecked'
      BY <1>7, <2>0, <2>b, <2>c DEF
         zend_shared_alloc_provider_create_segments, Go, Misfit,
         ResponseChecked
  <2>5. InUse'
      BY <1>7, <2>0, <2>b, <2>c DEF
         zend_shared_alloc_provider_create_segments, Go, Misfit,
         ProviderTypeOK, FieldsTrue, AllocationAt, InUse, Ownership,
         Allocator
  <2>6. Reports'
      BY <1>7, <2>0, <2>b, <2>c DEF
         zend_shared_alloc_provider_create_segments, Go, Misfit,
         ProviderTypeOK, InUse, Reports
  <2> QED
      BY <2>1, <2>2, <2>3, <2>4, <2>5, <2>6
<1>8. CASE zend_shared_alloc_try
  <2>0. /\ own' \in Ownership
        /\ own'.fds = own.fds /\ own'.open = own.open
        /\ own'.stray = own.stray /\ own'.heap = "freed"
        /\ own'.creator = own.creator /\ own'.reattached = own.reattached
        /\ own'.mapping = own'.mapped
        /\ own'.mapped => "munmap" \in faults
        /\ own'.segment_allocation => "munmap" \in faults
    <3>1. PICK unmaps \in Unmaps :
              own' = Free(ahe_broker_client_detach(own, TRUE, unmaps))
        BY <1>8 DEF zend_shared_alloc_try
    <3>2. unmaps \in BOOLEAN /\ (~unmaps => "munmap" \in faults)
        BY UnmapResults
    <3> DEFINE d == ahe_broker_client_detach(own, TRUE, unmaps)
    <3>3. own.mapping = TRUE /\ own.mapped = TRUE /\ own.heap = "live"
        BY <1>8 DEF zend_shared_alloc_try, AllocationAt, FieldsTrue,
           ProviderTypeOK, Ownership
    <3>4. /\ d \in Ownership
          /\ d.mapping = ~unmaps /\ d.mapped = ~unmaps
          /\ d.stray = own.stray /\ d.heap = "live"
          /\ d.segment_allocation => ~unmaps
          /\ d.fds = own.fds /\ d.open = own.open
          /\ d.creator = own.creator /\ d.reattached = own.reattached
      <4>1. own \in Ownership /\ own.stray \in BOOLEAN
          BY DEF ProviderTypeOK, Ownership
      <4>2. CASE unmaps
          BY <3>2, <3>3, <4>1, <4>2, DetachOwn
      <4>3. CASE ~unmaps
          BY <3>3, <4>1, <4>3 DEF ahe_broker_client_detach
      <4> QED
          BY <4>2, <4>3
    <3> HIDE DEF d
    <3> QED
        BY <3>1, <3>2, <3>4, FreeOwn DEF d
  <2>1. ProviderTypeOK'
      BY <1>8, <2>0 DEF zend_shared_alloc_try, Go, BothFaults,
         ProviderTypeOK, Places, Reports, InUse
  <2>2. FieldsTrue'
      BY <1>8, <2>0 DEF zend_shared_alloc_try, Go, BothFaults,
         ProviderTypeOK, FieldsTrue, AllocationAt, InUse
  <2>3. AllocationAt'
      BY <1>8, <2>0 DEF zend_shared_alloc_try, Go, BothFaults,
         ProviderTypeOK, FieldsTrue, AllocationAt, InUse, Descriptors
  <2>4. ResponseChecked'
      BY <1>8, <2>0 DEF zend_shared_alloc_try, Go, BothFaults,
         ResponseChecked
  <2>5. InUse'
      BY <1>8, <2>0 DEF zend_shared_alloc_try, Go, BothFaults,
         ProviderTypeOK, FieldsTrue, AllocationAt, InUse, Ownership,
         Allocator
  <2>6. Reports'
      BY <1>8, <2>0 DEF zend_shared_alloc_try, Go, BothFaults,
         ProviderTypeOK, InUse, Reports
  <2> QED
      BY <2>1, <2>2, <2>3, <2>4, <2>5, <2>6
<1>9. CASE FallBack
  <2>0. /\ own' \in Ownership
        /\ own'.fds = {} /\ own'.open = {} /\ own'.mapping = FALSE
        /\ own'.stray = FALSE /\ own'.segment_allocation = FALSE
        /\ own'.creator = FALSE /\ own'.reattached = FALSE
        /\ own'.mapped => "munmap" \in faults
        /\ own'.heap \in {"freed", "none", "twice"}
        /\ own'.heap = "twice" => BothFaults
    <3>1. PICK unmaps \in Unmaps :
              own' = ahe_broker_client_shutdown(own, unmaps)
        BY <1>9 DEF FallBack
    <3>2. unmaps \in BOOLEAN /\ (~unmaps => "munmap" \in faults)
        BY UnmapResults
    <3> DEFINE c == ahe_broker_client_shutdown(own, unmaps)
    <3>3. /\ c \in Ownership
          /\ c.fds = {} /\ c.open = {} /\ ~c.mapping /\ ~c.stray
          /\ ~c.segment_allocation /\ ~c.creator /\ ~c.reattached
          /\ c.mapped = (own.mapped /\ ~(own.mapping /\ unmaps))
          /\ c.heap = IF own.reattached /\ own.segment_allocation
                      THEN IF own.heap = "live" THEN "freed" ELSE "twice"
                      ELSE own.heap
        BY <3>2, ShutdownOwn DEF ProviderTypeOK, FieldsTrue
    <3> HIDE DEF c
    <3> QED
        BY <1>9, <3>1, <3>2, <3>3
           DEF FallBack, AllocationAt, FieldsTrue, ProviderTypeOK, Ownership, c
  <2>1. ProviderTypeOK'
      BY <1>9, <2>0 DEF FallBack, Go, BothFaults, ProviderTypeOK, Places,
         Reports, InUse
  <2>2. FieldsTrue'
      BY <1>9, <2>0 DEF FallBack, Go, BothFaults, ProviderTypeOK,
         FieldsTrue, AllocationAt, InUse
  <2>3. AllocationAt'
      BY <1>9, <2>0 DEF FallBack, Go, BothFaults, ProviderTypeOK,
         FieldsTrue, AllocationAt, InUse, Descriptors
  <2>4. ResponseChecked'
      BY <1>9, <2>0 DEF FallBack, Go, BothFaults, ResponseChecked
  <2>5. InUse'
      BY <1>9, <2>0 DEF FallBack, Go, BothFaults, ProviderTypeOK,
         FieldsTrue, AllocationAt, InUse, Ownership, Allocator
  <2>6. Reports'
      BY <1>9, <2>0 DEF FallBack, Go, BothFaults, ProviderTypeOK, InUse,
         Reports
  <2> QED
      BY <2>1, <2>2, <2>3, <2>4, <2>5, <2>6
<1>10. CASE zend_shared_alloc_provider_startup_complete
  <2>0. /\ own' \in Ownership
        /\ own'.fds = own.fds /\ own'.open = own.open
        /\ own'.mapping = own.mapping /\ own'.mapped = own.mapped
        /\ own'.stray = own.stray /\ own'.heap = own.heap
        /\ own'.creator = own.creator /\ own'.reattached = own.reattached
        /\ \/ own'.segment_allocation = own.segment_allocation
           \/ own.creator
    <3>1. CASE own' = own
        BY <3>1 DEF ProviderTypeOK
    <3>2. CASE /\ own.creator
               /\ own' = [own EXCEPT !.ready = TRUE,
                                     !.segment_allocation = FALSE]
        BY <3>2 DEF ProviderTypeOK, Ownership
    <3> QED
        BY <1>10, <3>1, <3>2 DEF zend_shared_alloc_provider_startup_complete
  <2>a. opcache' \in Allocator /\ opcache' = [opcache EXCEPT !.finished = TRUE]
      BY <1>10 DEF zend_shared_alloc_provider_startup_complete,
         ProviderTypeOK, Allocator
  <2>1. ProviderTypeOK'
      BY <1>10, <2>0, <2>a DEF zend_shared_alloc_provider_startup_complete,
         Unreported, Go, Allocator, ProviderTypeOK, Places, Reports, InUse
  <2>2. FieldsTrue'
      BY <1>10, <2>0, <2>a DEF zend_shared_alloc_provider_startup_complete,
         Unreported, Go, Allocator, ProviderTypeOK, FieldsTrue,
         AllocationAt, InUse, BothFaults
  <2>3. AllocationAt'
      BY <1>10, <2>0, <2>a DEF zend_shared_alloc_provider_startup_complete,
         Unreported, Go, Allocator, ProviderTypeOK, FieldsTrue,
         AllocationAt, InUse, BothFaults, Descriptors
  <2>4. ResponseChecked'
      BY <1>10, <2>0, <2>a DEF zend_shared_alloc_provider_startup_complete,
         Unreported, Go, Allocator, ResponseChecked
  <2>5. InUse'
      BY <1>10, <2>0, <2>a DEF zend_shared_alloc_provider_startup_complete,
         Unreported, Go, Allocator, ProviderTypeOK, FieldsTrue,
         AllocationAt, InUse, Ownership
  <2>6. Reports'
      BY <1>10, <2>0, <2>a DEF zend_shared_alloc_provider_startup_complete,
         Unreported, Go, Allocator, ProviderTypeOK, InUse, Reports
  <2> QED
      BY <2>1, <2>2, <2>3, <2>4, <2>5, <2>6
<1>11. CASE zend_shared_alloc_provider_startup_aborted
  <2>0. opcache' \in Allocator /\ opcache' = [opcache EXCEPT !.finished = TRUE]
      BY <1>11 DEF zend_shared_alloc_provider_startup_aborted,
         ProviderTypeOK, Allocator
  <2>1. ProviderTypeOK'
      BY <1>11, <2>0 DEF zend_shared_alloc_provider_startup_aborted,
         Unreported, Go, Allocator, ProviderTypeOK, Places, Reports, InUse
  <2>2. FieldsTrue'
      BY <1>11, <2>0 DEF zend_shared_alloc_provider_startup_aborted,
         Unreported, Go, Allocator, ProviderTypeOK, FieldsTrue,
         AllocationAt, InUse, BothFaults
  <2>3. AllocationAt'
      BY <1>11, <2>0 DEF zend_shared_alloc_provider_startup_aborted,
         Unreported, Go, Allocator, ProviderTypeOK, FieldsTrue,
         AllocationAt, InUse, BothFaults, Descriptors
  <2>4. ResponseChecked'
      BY <1>11, <2>0 DEF zend_shared_alloc_provider_startup_aborted,
         Unreported, Go, Allocator, ResponseChecked
  <2>5. InUse'
      BY <1>11, <2>0 DEF zend_shared_alloc_provider_startup_aborted,
         Unreported, Go, Allocator, ProviderTypeOK, FieldsTrue,
         AllocationAt, InUse, Ownership
  <2>6. Reports'
      BY <1>11, <2>0 DEF zend_shared_alloc_provider_startup_aborted,
         Unreported, Go, Allocator, ProviderTypeOK, InUse, Reports
  <2> QED
      BY <2>1, <2>2, <2>3, <2>4, <2>5, <2>6
<1>12. CASE zend_shared_alloc_lock
  <2>0. /\ opcache' \in Allocator
        /\ opcache'.active = opcache.active
        /\ opcache'.finished = opcache.finished
        /\ opcache'.lock_file = opcache.lock_file
        /\ opcache'.globals = opcache.globals
    <3>1. CASE opcache' = [opcache EXCEPT !.locked = TRUE]
        BY <3>1 DEF ProviderTypeOK, Allocator
    <3>2. CASE UNCHANGED opcache
        BY <3>2 DEF ProviderTypeOK
    <3> QED
        BY <1>12, <3>1, <3>2 DEF zend_shared_alloc_lock
  <2>1. ProviderTypeOK'
      BY <1>12, <2>0 DEF zend_shared_alloc_lock, Go, ProviderTypeOK, Places,
         Reports, InUse
  <2>2. FieldsTrue'
      BY <1>12, <2>0 DEF zend_shared_alloc_lock, Go, ProviderTypeOK,
         FieldsTrue, AllocationAt, InUse, BothFaults
  <2>3. AllocationAt'
      BY <1>12, <2>0 DEF zend_shared_alloc_lock, Go, ProviderTypeOK,
         FieldsTrue, AllocationAt, InUse, BothFaults, Descriptors
  <2>4. ResponseChecked'
      BY <1>12, <2>0 DEF zend_shared_alloc_lock, Go, ResponseChecked
  <2>5. InUse'
      BY <1>12, <2>0 DEF zend_shared_alloc_lock, Go, ProviderTypeOK,
         FieldsTrue, AllocationAt, InUse, Ownership, Allocator
  <2>6. Reports'
      BY <1>12, <2>0 DEF zend_shared_alloc_lock, Go, ProviderTypeOK, InUse,
         Reports
  <2> QED
      BY <2>1, <2>2, <2>3, <2>4, <2>5, <2>6
<1>13. CASE zend_shared_alloc_unlock
  <2>0. /\ opcache' \in Allocator
        /\ opcache'.active = opcache.active
        /\ opcache'.finished = opcache.finished
        /\ opcache'.lock_file = opcache.lock_file
        /\ opcache'.globals = opcache.globals
      BY <1>13 DEF zend_shared_alloc_unlock, ProviderTypeOK, Allocator
  <2>1. ProviderTypeOK'
      BY <1>13, <2>0 DEF zend_shared_alloc_unlock, Go, ProviderTypeOK,
         Places, Reports, InUse
  <2>2. FieldsTrue'
      BY <1>13, <2>0 DEF zend_shared_alloc_unlock, Go, ProviderTypeOK,
         FieldsTrue, AllocationAt, InUse, BothFaults
  <2>3. AllocationAt'
      BY <1>13, <2>0 DEF zend_shared_alloc_unlock, Go, ProviderTypeOK,
         FieldsTrue, AllocationAt, InUse, BothFaults, Descriptors
  <2>4. ResponseChecked'
      BY <1>13, <2>0 DEF zend_shared_alloc_unlock, Go, ResponseChecked
  <2>5. InUse'
      BY <1>13, <2>0 DEF zend_shared_alloc_unlock, Go, ProviderTypeOK,
         FieldsTrue, AllocationAt, InUse, Ownership, Allocator
  <2>6. Reports'
      BY <1>13, <2>0 DEF zend_shared_alloc_unlock, Go, ProviderTypeOK,
         InUse, Reports
  <2> QED
      BY <2>1, <2>2, <2>3, <2>4, <2>5, <2>6
<1>14. CASE zend_shared_alloc_shutdown
  <2>a. /\ own.mapping = TRUE /\ own.mapped = TRUE
        /\ own.reattached /\ own.segment_allocation => own.heap = "live"
        /\ own.heap \in {"live", "freed"}
        /\ own.heap = "live" => own.reattached /\ own.segment_allocation
      BY <1>14 DEF zend_shared_alloc_shutdown, InUse, FieldsTrue,
         ProviderTypeOK, Ownership
  <2>0. /\ own' \in Ownership
        /\ own'.fds = {} /\ own'.open = {} /\ own'.mapping = FALSE
        /\ own'.stray = FALSE /\ own'.segment_allocation = FALSE
        /\ own'.creator = FALSE /\ own'.reattached = FALSE
        /\ own'.mapped => "munmap" \in faults
        /\ own'.heap = "freed"
    <3>1. PICK first \in Unmaps, second \in Unmaps :
              own' = ahe_broker_client_shutdown(
                         ahe_broker_client_detach(own, FALSE, first), second)
        BY <1>14 DEF zend_shared_alloc_shutdown
    <3>2. /\ first \in BOOLEAN /\ second \in BOOLEAN
          /\ ~first => "munmap" \in faults
        BY UnmapResults
    <3> DEFINE d == ahe_broker_client_detach(own, FALSE, first)
               c == ahe_broker_client_shutdown(d, second)
    <3>3. /\ d \in Ownership
          /\ d.mapping = ~first /\ d.mapped = ~first
          /\ ~d.stray /\ d.segment_allocation = own.segment_allocation
          /\ d.open = d.fds /\ d.heap = own.heap
          /\ d.reattached = own.reattached
      <4>1. /\ own \in Ownership /\ own.stray = FALSE
            /\ own.segment_allocation \in BOOLEAN /\ own.open = own.fds
          BY DEF ProviderTypeOK, FieldsTrue, Ownership
      <4>2. CASE first
          BY <2>a, <3>2, <4>1, <4>2, DetachOwn
      <4>3. CASE ~first
          BY <2>a, <4>1, <4>3 DEF ahe_broker_client_detach
      <4> QED
          BY <4>2, <4>3
    <3> HIDE DEF d
    <3>4. /\ c \in Ownership
          /\ c.fds = {} /\ c.open = {} /\ ~c.mapping /\ ~c.stray
          /\ ~c.segment_allocation /\ ~c.creator /\ ~c.reattached
          /\ c.mapped = (d.mapped /\ ~(d.mapping /\ second))
          /\ c.heap = IF d.reattached /\ d.segment_allocation
                      THEN IF d.heap = "live" THEN "freed" ELSE "twice"
                      ELSE d.heap
        BY <3>2, <3>3, ShutdownOwn
    <3> HIDE DEF c
    <3> QED
        BY <2>a, <3>1, <3>2, <3>3, <3>4 DEF Ownership, c, d
  <2>b. /\ opcache' \in Allocator /\ opcache'.active = FALSE
        /\ opcache'.lock_file = FALSE
      BY <1>14 DEF zend_shared_alloc_shutdown, Deactivate, ProviderTypeOK,
         Allocator
  <2>c. /\ at \in {"starting", "running", "aborted"} /\ at' = "ended"
        /\ faults' = faults /\ response' = response
      BY <1>14 DEF zend_shared_alloc_shutdown, Go
  <2>d. accepted' = 1 /\ reported' = 1
      BY <1>14 DEF zend_shared_alloc_shutdown, ReportUnfinished, Unreported,
         InUse, Reports
  <2>1. ProviderTypeOK'
      BY <2>a, <2>0, <2>b, <2>c, <2>d DEF Misfit, ProviderTypeOK, Places,
         Reports, InUse
  <2>2. FieldsTrue'
      BY <2>a, <2>0, <2>b, <2>c, <2>d DEF Misfit, ProviderTypeOK,
         FieldsTrue, AllocationAt, InUse, BothFaults
  <2>3. AllocationAt'
      BY <2>a, <2>0, <2>b, <2>c, <2>d DEF Misfit, ProviderTypeOK,
         FieldsTrue, AllocationAt, InUse, BothFaults, Descriptors
  <2>4. ResponseChecked'
      BY <2>a, <2>0, <2>b, <2>c, <2>d DEF Misfit, ResponseChecked
  <2>5. InUse'
      BY <2>a, <2>0, <2>b, <2>c, <2>d DEF Misfit, ProviderTypeOK,
         FieldsTrue, AllocationAt, InUse, Ownership, Allocator
  <2>6. Reports'
      BY <2>a, <2>0, <2>b, <2>c, <2>d DEF Misfit, ProviderTypeOK, InUse,
         Reports
  <2> QED
      BY <2>1, <2>2, <2>3, <2>4, <2>5, <2>6
<1>15. CASE NativeShutdown
  <2>1. ProviderTypeOK'
      BY <1>15 DEF NativeShutdown, Go, ProviderTypeOK, Places, Reports,
         InUse
  <2>2. FieldsTrue'
      BY <1>15 DEF NativeShutdown, Go, ProviderTypeOK, FieldsTrue,
         AllocationAt, InUse, BothFaults
  <2>3. AllocationAt'
      BY <1>15 DEF NativeShutdown, Go, ProviderTypeOK, FieldsTrue,
         AllocationAt, InUse, BothFaults, Descriptors
  <2>4. ResponseChecked'
      BY <1>15 DEF NativeShutdown, Go, ResponseChecked
  <2>5. InUse'
      BY <1>15 DEF NativeShutdown, Go, ProviderTypeOK, FieldsTrue,
         AllocationAt, InUse, Ownership, Allocator
  <2>6. Reports'
      BY <1>15 DEF NativeShutdown, Go, ProviderTypeOK, InUse, Reports
  <2> QED
      BY <2>1, <2>2, <2>3, <2>4, <2>5, <2>6
<1>16. CASE ExitAborted
  <2>1. ProviderTypeOK'
      BY <1>16 DEF ExitAborted, Go, ProviderTypeOK, Places, Reports, InUse
  <2>2. FieldsTrue'
      BY <1>16 DEF ExitAborted, Go, ProviderTypeOK, FieldsTrue,
         AllocationAt, InUse, BothFaults
  <2>3. AllocationAt'
      BY <1>16 DEF ExitAborted, Go, ProviderTypeOK, FieldsTrue,
         AllocationAt, InUse, BothFaults, Descriptors
  <2>4. ResponseChecked'
      BY <1>16 DEF ExitAborted, Go, ResponseChecked
  <2>5. InUse'
      BY <1>16 DEF ExitAborted, Go, ProviderTypeOK, FieldsTrue,
         AllocationAt, InUse, Ownership, Allocator
  <2>6. Reports'
      BY <1>16 DEF ExitAborted, Go, ProviderTypeOK, InUse, Reports
  <2> QED
      BY <2>1, <2>2, <2>3, <2>4, <2>5, <2>6
<1>17. CASE UNCHANGED providerVars
    BY <1>17 DEF providerVars, ProviderTypeOK, FieldsTrue, AllocationAt,
       InUse, Reports, ResponseChecked, Misfit, BothFaults
<1> QED
    BY <1>1, <1>2, <1>3, <1>4, <1>5, <1>6, <1>7, <1>8, <1>9, <1>10, <1>11,
       <1>12, <1>13, <1>14, <1>15, <1>16, <1>17 DEF Next, ProviderStart,
       ProviderEnd

(* The invariant, with any combination of the faults.                      *)
THEOREM ProviderInvariant == Spec => []ProviderInv
BY ProviderInit, ProviderStep, PTL DEF Spec

-----------------------------------------------------------------------------
(* What the invariant means for one state.                                 *)

(* Only the two rare faults together make the client free a block twice.   *)
OneFaultOnly == \A f \in FaultSets : f # {"munmap", "offset"}

(* ReleasedOnce from the invariant.                                        *)
LEMMA ReleasedFromInv == OneFaultOnly /\ ProviderInv => ReleasedOnce
<1> SUFFICES ASSUME OneFaultOnly, ProviderInv PROVE ReleasedOnce
    OBVIOUS
<1>1. faults \in FaultSets /\ faults \subseteq {"munmap", "offset"}
    BY ProviderAssumption DEF ProviderInv, ProviderTypeOK
<1>2. BothFaults => faults = {"munmap", "offset"}
    BY <1>1 DEF BothFaults
<1>3. ~BothFaults
    BY <1>1, <1>2 DEF OneFaultOnly
<1> QED
    BY <1>3 DEF ProviderInv, FieldsTrue, ReleasedOnce

(* The other properties from the invariant.                                *)
LEMMA PropertiesFromInv ==
    ProviderInv =>
        /\ NothingLeft /\ RestoredInside /\ LockFileOpen /\ StartupReported
<1> SUFFICES ASSUME ProviderInv
             PROVE  /\ NothingLeft /\ RestoredInside
                    /\ LockFileOpen /\ StartupReported
    OBVIOUS
<1>1. NothingLeft
    BY DEF ProviderInv, FieldsTrue, AllocationAt, NothingLeft
<1>2. RestoredInside
    BY DEF ProviderInv, FieldsTrue, InUse, RestoredInside
<1>3. LockFileOpen
    BY DEF ProviderInv, FieldsTrue, InUse, LockFileOpen, Descriptors
<1>4. StartupReported
    BY DEF ProviderInv, ProviderTypeOK, InUse, Reports, StartupReported
<1> QED
    BY <1>1, <1>2, <1>3, <1>4

-----------------------------------------------------------------------------
(* Nothing is given back twice: for any replies, any failures of mmap(),   *)
(* calloc() and the startup, and at most one of the rarer faults, each     *)
(* block is freed once and nothing is closed or unmapped that is gone.     *)
THEOREM GivenBackOnce == OneFaultOnly /\ Spec => []ReleasedOnce
<1> SUFFICES ASSUME OneFaultOnly PROVE Spec => []ReleasedOnce
    OBVIOUS
<1>1. ProviderInv => ReleasedOnce
    BY ReleasedFromInv
<1> QED
    BY <1>1, ProviderInvariant, PTL

(* Every exit gives back the descriptors, the memory and the block, with   *)
(* any combination of the faults.                                          *)
THEOREM AllGivenBack == Spec => []NothingLeft
BY ProviderInvariant, PropertiesFromInv, PTL

(* Whatever offset the broker sends, the globals that OPcache restores lie *)
(* within the mapped memory.                                               *)
THEOREM GlobalsInside == Spec => []RestoredInside
BY ProviderInvariant, PropertiesFromInv, PTL

(* The lock file that OPcache keeps is open as long as it keeps it.        *)
THEOREM LockFileKept == Spec => []LockFileOpen
BY ProviderInvariant, PropertiesFromInv, PTL

(* The end of every startup is reported, and once.                         *)
THEOREM StartupEndsOnce == Spec => []StartupReported
BY ProviderInvariant, PropertiesFromInv, PTL

=============================================================================
