# A TLA+ development of the Abyssal Hyperglyph Engine

The Abyssal Hyperglyph Engine (AHE) keeps PHP's OPcache memory alive between
PHP processes. A long-lived *broker* holds the descriptors of one cache
memory and of one lock file; every PHP process asks it over a private Unix
`SOCK_SEQPACKET` socket either to create the memory or to attach to it. This
directory models that protocol, its implementation in C, and a PHP process from
its launcher to its last callback.

Paths below are relative to the repository.

## 1. Inventory

| Component | Source | State | Operations |
|---|---|---|---|
| Broker | `src/ahe_broker.c`, `src/ahe_broker_protocol.h` | one `ahe_generation` (EMPTY, INITIALIZING, READY; two memfds, size, base, offset, key, `creator_fd`), the client array, the poll array, `handled_clients`, the listener, the stop flag | the poll loop, accept, ACQUIRE, READY, ABORT, DETACH, closing a client, quota, signal, shutdown |
| Socket path | `src/ahe_broker.c` | the directory entry `--socket` and its parent | preparation of the parent, stale socket removal, bind, chmod, listen, unlink |
| Broker client | `src/ahe_broker_client.c`, `.h` | `ahe_broker_client`: socket, two descriptors, mapping, segment block, flags | connect, acquire, publish, abort, lock, unlock, detach, shutdown |
| Shared-memory provider | `src/abyssal_hyperglyph_engine.c` | the client, whether persistence is configured | the callbacks OPcache calls |
| OPcache provider patch | `patches/php/8.4/0001-…patch` | the registered provider, whether it is active and its startup finished, `lock_file`, the restored globals | registration, validation, startup reports, lock, unlock, fallback, shutdown |
| Extension loading | `src/abyssal_hyperglyph_engine.c` | registration flags, a retained library handle | Zend extension messages, startup, ASLR check |
| Cache identity | `src/abyssal_hyperglyph_engine.c` | a digest | framing and sorting of the configuration fields |
| Launcher | `src/ahe_php.c` | none | personality, environment, exec |
| SHM reattachment patch | `patches/php/8.4/0002-…patch` | none | compile-time switches |
| Packaging, checks, benchmarks | `nix/`, `scripts/` | none | |

How they interact. The provider registers callbacks with the patched OPcache.
At startup OPcache calls `create_segments`, which connects and sends ACQUIRE;
the broker answers CREATE or ATTACH with two descriptors as `SCM_RIGHTS`, or
DECLINE, or ERROR. A creator maps the memory wherever it can, OPcache builds its
structures there, and `startup_complete` sends READY with the address. An
attaching process maps at exactly that address. From then on the processes
share memory and a `fcntl` lock, and the broker takes no part until the process
sends DETACH and closes its socket.

What is hard here:

* the broker is single-threaded, but everything it reads from the kernel may
  have changed by the time it acts: peers send, close and reset between any two
  steps, several in one poll round;
* descriptor numbers are reused at once, and `creator_fd` is such a number;
* closing a client moves the last array entry while the parallel poll array
  stays as it was;
* each handler has failure exits in the middle (a memfd, a reply that cannot be
  sent, an exhausted descriptor table);
* a client gives up after one second (`SO_RCVTIMEO`, `SO_SNDTIMEO`) although
  its request is still queued, and then reads the answer to one request as the
  answer to the next;
* either side can die at any moment;
* a signal sets a flag that is tested before a blocking `poll()`;
* several brokers may use one socket path;
* the segment block that describes the memory changes hands between the client
  and OPcache, differently for a creator, for one that attaches and for one that
  is refused;
* Zend unloads extensions before OPcache's last callback, and announces OPcache
  to AHE only when AHE was loaded first;
* two processes share memory when two strings are equal, so the string must say
  everything that matters and nothing that does not.

`PROJECT.json` lists these as hazards with their lines and the properties aimed
at them.

## 2. Modules

| Module | Models |
|---|---|
| `AheGeneration` | the abstract service: one memory at a time, one creator, attached to once published, never withdrawn |
| `AheBroker` | the broker process and its descriptor table, backlog and sockets, against arbitrary peers |
| `AheBrokerRefinement` | the refinement mapping from `AheBroker` to `AheGeneration` |
| `AheSystem` | `AheBroker` composed with PHP processes that follow the client library |
| `AheSharing` | the promise to PHP processes, without a broker: what a process may map, and who may change it |
| `AheProvider` | what one process owns: descriptors, mapping, segment block, and the patched allocator's variables |
| `AheLoader` | `AheProvider` inside a PHP process: launcher, extension loading, registration, shutdown |
| `AheCacheKey` | the cache key: digest of the configuration and the printed identity |
| `AheSocketPath` | brokers that share a socket path, one system call at a time |
| `AhePromises_proofs` | theorems: the two abstract specifications keep their promises |
| `AheBroker_proofs` | theorems: descriptors, creator, poll array, retained generations |
| `AheBrokerRefinement_proofs` | theorems: grants, the refinement of `AheGeneration`, the quota |
| `AheSystem_proofs` | theorems: sharing among any number of processes, the refinement of `AheSharing` |
| `AheProvider_proofs`, `AheLoader_proofs` | theorems: one process's ownership, and its loading |
| `AheSocketPath_proofs` | theorems: brokers one after another on one path |
| `AheCacheKey_proofs` | theorems: keys are equal exactly when identities are |
| `MCBroker`, `MCPromises`, `MCSystem`, `MCProvider`, `MCLoader`, `MCCacheKey`, `MCSocketPath` | instances for TLC |

Operators named "Faulty variant" are plausible mistakes in the code that follows
them. No specification uses them; they are there to show that a property
notices the mistake (`mutants` in `PROJECT.json`).

### AheBroker

The variables carry the names of the C variables: `generation`, `clients`,
`poll_fds`, `client_index`, `handled_clients`, `listener_fd`,
`ahe_broker_stopping`. Descriptors are small numbers handed out lowest first
and looked up in `fd_table`, so that the model has descriptor reuse, leaks and
double closes. The kernel's side of each connection is `link`, `peer`,
`requests` and `replies`. `granted` is a history variable: the descriptor pairs
that were queued on a socket.

`pc` says where `main()` is:

* `loop` — the loop condition and the quota (`LoopStops`, `LoopContinues`,
  `LoopClosesListener`);
* `trim` — after the quota is met, connections that never sent anything are
  closed, last first (`TrimClient`, `TrimDone`);
* `setup`, `poll` — the poll array is built and `poll()` blocks (`Setup`,
  `SetupFails`, `Poll`);
* `serve` — one step per client, last first (`SkipClient`, `RefuseClient`,
  `ahe_broker_handle_client_message`), then at most one accept
  (`ahe_broker_add_client`, `RejectForeign`, `SkipAccept`, `AcceptFails`, which is also
  the exit on an error that `poll()` reports on the listener);
* `drain`, `exited` — `Shutdown`.

A handler is one step: it receives, decides, replies (`ahe_broker_send_message`)
and ends in `Finish`, which keeps or closes the connection as `main()` does after
the handler returns. A creation that fails halfway (`CreationUndone`) really opens one
memfd or both, lowest free number first, and closes what the generation names by
then. A peer's action between two system calls of one handler has
the effect of the same action before or after the handler, because a handler
touches one connection and reads and writes it once. `ahe_broker_handle_signal`
interrupts a blocked `poll()` and otherwise only sets the flag; `Kill` is SIGKILL.

Peers (`PeerConnect`, `PeerSend`, `PeerReceive`, `PeerClose`) do what they like,
well-behaved or not: any request of `Requests`, in any order, reading or not,
closing at any time. A close with unread replies is a reset, as on Linux.

### AheGeneration and the refinement

The abstract state is `phase`, `owner`, `memory`, `place` and the set of
`holders`. `AheBrokerRefinement` reads it off the generation record, the
descriptor table and `granted`. Publishing with an acknowledgement that cannot
be sent, an ABORT by a bystander, a creator that is closed in the middle of a
round, and the exits on failure all have to be abstract steps or stutters.

### AheSystem

A process is a member of `Conns`, and everything it does on its socket *is* an
action of `AheBroker`, so the composition changes nothing of the broker. `at` is
the process's place in the startup, request and shutdown sequence of the patched
OPcache; `broker` is its `ahe_broker_client`, with the key the process asks with, which
it chooses as it sends ACQUIRE; `built` records which memories have
a finished OPcache in them, at which address and for which key. Every receive may come back empty
(`ReceiveNothing`): that is the timeout, and the request stays in the broker's
queue. `Crash` ends a process anywhere, also while it holds the lock.
`ProcessRequests` are the messages the client library can fill in; that they are among
the `Requests` of the instance is part of `SystemAssumption`.

### AheSharing and its refinement

`AheGeneration` is what the broker promises to its connections; `AheSharing` is what
AHE promises to PHP processes. A process maps fresh memory anywhere, or memory that
some process *completed* with the same key, at the address it was completed at; the
lock is per memory. There is no broker, no message and no generation in it.
`AheSystem` maps to it (`Sharing`): `mapping`, `base` and `key` are fields of each
`ahe_broker_client`, `built` is the history variable, `locked` the processes inside
the lock. So a timeout that leaves a READY in the broker's queue, a generation that
is given up while its memory is mapped, a broker that dies under its clients and a
crash inside the lock must each be a step of `AheSharing` or a stutter.

### AheProvider

One process against a broker that may answer anything. `own` holds the fields of
`ahe_broker_client` next to what the process *really* has: `open` descriptors,
whether memory is `mapped`, and whether the segment block on the `heap` is live,
freed or freed twice; `stray` remembers that something was closed or unmapped that
was no longer there. Fields and reality drift apart exactly when the code forgets
something. `opcache` holds the static variables of the patched allocator:
`g_shared_alloc_provider_active`, `…_startup_finished`, `lock_file`, `ZCG(locked)` and
the offset of the restored globals. `at` follows `create_segments` through connecting,
the exchange, `mmap` and `calloc`, then validation, OPcache's startup, the requests and
`zend_shared_alloc_shutdown`; every failure exit of `ahe_broker_client_acquire` is a
disjunct that ends in `Fails`. The descriptors of a reply are open from the moment it is
received (`Receives`), and a refused reply closes them (`Refuses`). `faults` are the rarer failures of a process's life, one
of the sets in `FaultSets`: `"munmap"`, calls of `munmap()` may fail; `"offset"`, a
broker may answer with globals that start inside the memory and end outside (`Misfit`).
All other failures are possible in every life. A creator's block is freed by OPcache
as soon as it has been copied into the shared memory, an attaching process's block by the client's
shutdown, a refused one by `zend_shared_alloc_try`.

### AheLoader

Extends `AheProvider` with the process around it. `main` is `ahe-php`; a process may
also start without it, with or without the variable and the personality it would have
set. `zend_register_extension` loads the extensions in the order of the configuration
and calls `ahe_message_handler` if AHE is there already. `loaded` is the set of extensions
Zend knows (all that `ahe_opcache_is_loaded` asks of the list), `to_start` the order in
which they are started; `build` says what OPcache it is
(a shared object or not, with the registration function or not, of this ABI or not,
already taken or not). A startup that fails unloads the library by its handle, and
`ahe_shutdown` stands for Zend's unloading of all extensions, after which OPcache's
post-shutdown callback still calls the provider. Zend's own steps are external and
modelled from what the code relies on.

### AheCacheKey

Names and values of directives are short byte sequences, so that one can be a prefix
of another and a value can look like a length. `Selected` and `DigestBytes` are the two
loops of the digest as recursive functions, and the sorted entries between them are the
one arrangement in which each name is `strcmp`-less than the next: names are registered
once, so `qsort` has no choice. The digest stands for the bytes that are fed to MD5: MD5
is taken to be injective. A key is a sequence of tokens of the format string and of the
fields; `Checked` is the length check after `snprintf`, with `KeySize` counted in tokens.
`Configuration`, against which the key is compared, is read off the directives themselves
and not off what was selected.

### AheSocketPath

The path names a socket (after the broker that bound it), somebody else's file,
a leftover of a killed broker, or nothing. Each action is one of the calls
`mkdir` and `lstat` on the parent directory, and `lstat`, `connect`, `lstat`, `unlink`,
`bind`, `chmod`, `listen`, `close`, `unlink` on the path. `ListenFails` is `chmod()` or
`listen()` failing for reasons of its own; a failing `socket()`, `connect()` or `bind()` ends
the broker with the path as it is, which is what `Kill` does there. `Overlap` says whether a broker
may start while another is alive.

## 3. Runs

| Run | Checks | Shows |
|---|---|---|
| `promises` | `TypeOK`, `HoldersAgree`, `OwnerAlone`, `SharingTypeOK`, `SharedAlike` | the two abstract specifications promise enough: one creator, one place, one address, one key and one writer per memory |
| `broker_messages` | `TypeOK`, `DescriptorsOwned`, `CreatorConnected`, `PollAligned`, `GrantsAgree`, `RefinesGeneration`, `Retained`, `PublishedAcknowledged` | any mixture of valid, refused and malformed messages, with descriptors running out: nothing leaks or is closed twice, nobody is served with another's events, nothing is published without its creator being told, and generations are created, given up, published and attached to as the abstract service says |
| `broker_quota` | `QuotaHeld`, `QuotaEnds`, `RequestsServed` | `--max-clients` is not exceeded by a race of first messages, and the broker ends once those it answered have left, whoever else stays connected; no peer can make it wait |
| `broker_signal` | `StopsOnSignal` (violated) | see Findings |
| `system_two` | `SystemTypeOK`, `SameObjects`, `AttachedBuilt`, `KeyRespected`, `OneWriter`, `AcknowledgedRetained`, `RefinesSharing` | sharing is sound through timeouts and deaths on either side, also between processes of different keys: processes, broker and faults implement `AheSharing` |
| `system_start` | `StartupEnds`, `InitializationEnds` | a process gets to its request with a broker that stalls or fails; while the broker runs, no generation stays under construction for ever |
| `system_abandoned` | `AbandonedNotPublished` (violated) | see Findings |
| `loader` | `LoaderTypeOK`, `ReleasedOnce`, `NothingLeft`, `RestoredInside`, `LockFileOpen`, `StartupReported`, `CallbacksLoaded`, `SharedOnlyStable`, `EnabledRegistered` | whatever the broker answers and wherever startup is left, everything is given back, once; no callback into an unloaded library, no shared mapping with randomised addresses, no silent extension |
| `provider_both` | `ReleasedOnce` (violated) | see Findings |
| `key` | `TypeOK`, `KeyIdentifies`, `KeyStable` | equal keys exactly for equal identities, with separators inside fields and keys that do not fit |
| `path_serial` | `TypeOK`, `ServingReachable`, `StaleRecovered` | brokers one after another, killed anywhere, recover the path |
| `path_overlap` | `ServingReachable` (violated) | see Findings |

### Bounds, and why they are enough

* **Connections**: two in most runs. A generation has one creator and the
  question is always what somebody else can do to it or see of it; a second
  connection can be accepted in the place, and with the descriptor, of the first
  only if there is a third party or the first has left, and both happen.
  `broker_quota` has a third connection, of another user. That removing a middle
  entry of a longer client array disturbs nothing is the theorem
  `ServedWithOwnEvents`, for any number of clients.
* **`MaxSends`** 2: a connection creates and publishes, or creates and aborts, and
  the other does the same or attaches after it.
* **`FdLimit`** 5: the listener, two clients and two memfds fit, one more of
  anything does not. In the system runs every descriptor fits, and
  running out is the unconditional choice of `AcquireFails` and `AcceptFails`.
* **`SendBuffer`**, **`RequestQueue`**, **`Backlog`** 1: the limits are reached
  often. In the system runs the queues hold everything a process can send, since
  a process never has more than four requests outstanding.
* **`MaxSize`** 2: zero, a valid and a second size.
* **`Addresses`**: two, so that an attaching process could choose wrongly; one
  where addresses do not matter.
* **`MaxLocks`** 1: two processes, each in its critical section once.
* **`MappingSize`**, **`GlobalsSize`**, **`Offsets`** 3, 2, 0 to 4: globals that fit with
  and without room to spare, that start inside and end outside, that start at the end
  and beyond.
* **`FaultSets`**: at most one of the two in `loader`, both in `provider_both`, which is
  the finding.
* **`Orders`**: both orders of the two extensions, and each alone.
* **`MaxDirectives`** 2 in `key`, out of four names of one to three bytes and two values
  or none: two entries can exchange bytes at every boundary (name and value, value and
  next name), be in either order, and be foreign or the bare prefix. `KeySize` is 25, so
  that of the seven identities some have a key that just fits, some one that is a token
  too long, and one a key that is far too long.
* **`Memories`**, **`Mappings`** in `promises`: 3, so that a memory can be given up or
  completed and left, and followed by others. In `system_two`, `Mappings` is an upper
  bound on the memfds the broker can ever create.
* **`Keys`**: two in `system_two`, so that a process may come with the same key as the
  last one or with another; one where keys do not matter.
* **Symmetry** over connections of the broker's own user, over processes and over keys,
  only in runs without liveness properties (`RefinesGeneration` and `RefinesSharing` are
  safety properties: the abstract specifications have no fairness).
* `system_two` and `system_start` leave out signals (`UnsignalledSpec`) to keep the graph
  small. A signal only makes the broker leave its loop, and it leaves it on failures, too.
  `system_two` includes SIGKILL at any moment. `system_start` does not
  (`UndisturbedSpec`): the broker may exit on failure at the top of any round and need not
  take any step at all, which is all of its end that a process can see.

`CHECK_DEADLOCK FALSE` is set throughout because every one of these systems may
rightly stop: a broker with no events waits in `poll()` for ever, it exits, peers
run out of their `MaxSends`, processes end.

### Fairness

* `AheBroker`: weak fairness of `BrokerStep`. The broker is one thread that never
  blocks except in `poll()`: sockets are used with `MSG_DONTWAIT`, so whenever a step
  is enabled it runs. Peers, signals and SIGKILL are never fair.
* `AheSystem`: weak fairness of each process's own steps and *none* of the broker.
  What keeps a process going is its own timeout, which is what `StartupEnds` is
  about. A wait for the lock ends because its holder, too, is a process with fair
  steps. `InitializationEnds` has the broker's fairness as a hypothesis: it is about a
  broker that keeps running.

## 4. Proofs

TLAPS proves all of the following for every value of the constants that the named
assumptions allow, so for any number of connections, processes, brokers, sizes, offsets
and limits. `BrokerAssumption`: limits are naturals, those that cannot be zero are not,
foreign connections are connections, the two marker keys are not keys.
`SystemAssumption`: there are finitely many processes, addresses are not zero, the
requested size and offset are ones the broker accepts, and the processes' messages are
among its requests. `ProviderAssumption`, `LoaderAssumption`, `PathAssumption`,
`GenerationAssumption` and `SharingAssumption` only give the constants their types and
keep the markers apart. `KeyAssumption` types the directives and says that a key may be
longer than one token; `FieldsAssumption` says that no field but the namespace contains a
bar: user and size are printed in decimal, the entry point and Zend's system ID in
hexadecimal, and SAPIs have names like `cli`. TLC evaluates each of them in some run.

| Theorem | States | Module |
|---|---|---|
| `GenerationTypes`, `HoldersSafe`, `BuiltAlone` | `Spec =>` `[]TypeOK`, `[]HoldersAgree`, `[]OwnerAlone` | `AhePromises_proofs` |
| `SharingTypes`, `SharingSafe` | `SharingSpec =>` `[]SharingTypeOK`, `[]SharedAlike` | |
| `BrokerInvariant` | `Spec => []BrokerInv` | `AheBroker_proofs` |
| `BrokerTypes`, `NoDescriptorLeaks`, `CreatorNeverReused`, `ServedWithOwnEvents` | `Spec =>` `[]TypeOK`, `[]DescriptorsOwned`, `[]CreatorConnected`, `[]PollAligned` | |
| `PublishedRetained`, `PublicationAcknowledged` | `Spec =>` `Retained`, `PublishedAcknowledged`, action properties | |
| `GrantsConsistent` | `Spec => []GrantsAgree` | `AheBrokerRefinement_proofs` |
| `BrokerRefines` | `Spec => RefinesGeneration` | |
| `HoldersServed` | `Spec => []HoldersAgree`, read off the grants | |
| `QuotaNeverExceeded` | `Spec => []QuotaHeld` | |
| `SystemInvariant` | `SystemSpec => []SystemInv` | `AheSystem_proofs` |
| `SystemTypes`, `ObjectsShared`, `AttachedComplete`, `KeysAgree`, `WritersExclude`, `AcknowledgedKeeps` | `SystemSpec =>` `[]SystemTypeOK`, `[]SameObjects`, `[]AttachedBuilt`, `[]KeyRespected`, `[]OneWriter`, `[]AcknowledgedRetained` | |
| `SystemRefines` | `SystemSpec => RefinesSharing` | |
| `PathTypes` | `Spec => []TypeOK`, also with overlapping brokers | `AheSocketPath_proofs` |
| `RestartsReachable`, `RestartsRecover` | `~Overlap /\ Spec =>` `[]ServingReachable`, `[]StaleRecovered` | |
| `ProviderInvariant` | `Spec => []ProviderInv` | `AheProvider_proofs` |
| `GivenBackOnce` | `OneFaultOnly /\ Spec => []ReleasedOnce` | |
| `AllGivenBack`, `GlobalsInside`, `LockFileKept`, `StartupEndsOnce` | `Spec =>` `[]NothingLeft`, `[]RestoredInside`, `[]LockFileOpen`, `[]StartupReported` | |
| `LoaderProvider`, `LoadedProviderSafe`, `LoadedGivenBackOnce` | `LoaderSpec => Spec`, and with it the provider's properties | `AheLoader_proofs` |
| `LoaderTypes`, `CallbacksStay`, `StableAddresses`, `EnabledProvides` | `LoaderSpec =>` `[]LoaderTypeOK`, `[]CallbacksLoaded`, `[]SharedOnlyStable`, `[]EnabledRegistered` | |
| `DigestIdentifies` | equal digests exactly for equal configurations, for any lists of directives | `AheCacheKey_proofs` |
| `TypeCorrect`, `KeysIdentify`, `KeysStable` | `Spec =>` `[]TypeOK`, `[]KeyIdentifies`, `[]KeyStable` | |

The two hypotheses are the ones the findings show to be needed: without `~Overlap`,
`path_overlap` violates `ServingReachable`, and without `OneFaultOnly` (no process suffers
a failing `munmap()` and a misfitting offset together), `provider_both` violates
`ReleasedOnce`.

### The broker: `BrokerInv`

None of its properties is inductive alone. Closing a client is safe for
the descriptor table only if no two clients share a descriptor and none is the
generation's; that the creator is still connected follows only if the client
being closed is the right one, and so on. `BrokerInv` is the conjunction

* `Owned`: the table is well typed (`TableOK`), clients and served connections
  correspond one to one (`ClientsOK`), the generation owns two memfds or nothing
  (`GenerationOK`), the listener is the listener (`ListenerOK`), and every open
  descriptor has an owner (`NoLeak`);
* `CreatorOK`: the creator of a generation under construction is a client that
  was handed its memory;
* `LoopOK`: the indices and the poll array in each phase of the loop;
* `BacklogOK`: waiting connections are distinct and marked as waiting;
* `RestOK`: the types of the remaining variables.

The parts are operators of the values they relate (`Owned(cls, gen, table, lnk,
lfd)`), not of the variables, because the handlers pass through intermediate
values: a handler makes a new generation and table and then `Finish` may close
the very client that asked. `CloseLemma` says once what closing entry `i` does to
any owned state; `MarkLemma`, `FinishStep` and `CloseStep` lift it to the end of a
client's turn; each handler then only has to show that what it hands to `Finish`
is owned. `Retained` follows from the invariant since every path that resets a
generation is guarded by INITIALIZING. For `PublishedAcknowledged`, `PublishingStep` shows
that the only step from INITIALIZING to READY is an accepted READY whose reply can be
sent, and `BrokerInv` that the creator's descriptor is the socket it is sent on.
`AcquireFailsPlainly` says that a creation that fails halfway leaves the table as it was,
since what it opened was free.

### The service: `ServiceInv`, the refinement and `QuotaInv`

`ServiceInv` adds to `BrokerInv` what the record and the grants say of each other:
every granted memory is one of the `memfds` made so far (`GrantsOK`), the grants of the
present generation name its lock, its owner and, once it is published, its address
(`RecordOK`, `GrantsOK`), and a poll entry reports a message only where there was one
(`EventsTrue`). New memory is `memfds + 1`, so it has no grant yet: that is why
`GrantsAgree` survives a generation that is given up and a descriptor number that is used
again.

To the service, a step of the broker is one of six things (`ServiceStep`): nothing
(`Same`), the end of an unpublished generation (`Discarded`), `CreatedFor(c)`,
`AttachedFor(c)`, `PublishedNow` or `Stopped`. The lemmas `OuterSteps`, `PlainTurns`,
`CreateTurn`, `GrantTurn`, `ReadyTurn` and `AbortTurn` sort the broker's actions into
them, by whether the reply can be sent. The invariant and the refinement are then proved
from the six cases: each maps to the abstract action of its name or to a stutter.

`QuotaInv` says that `handled_clients` is the cardinality of a set of connections, those
with a handled message, that contains every connection that was ever answered.

### The processes: `SystemInv`, `MadeInv` and the refinement

`SystemInv` adds for each process

* `RequestsOK`: it asks first and once, and a READY that is queued, however late it is
  read, is of memory the process completed at the address it names;
* `MappedOK`: what it maps is its one grant, at the address and key at which the
  memory was completed, if it was; what it saw acknowledged is what the broker retains;
* `PlaceOK`: what it has at each place of `at`; in particular a process that waits for
  its ACQUIRE has at most one request or one reply, and the reply carries fresh memory
  or memory completed with its key (`Answer`);

and `BuiltOK`: a memory is completed once, by a process that was told to create it, and
the published record is a completed memory. The central point is that a timeout
leaves a request in the broker's queue: READY after the client has given up still
publishes a completed memory, so `AttachedBuilt` does not depend on anybody waiting.

The proof has two halves. For the steps of a process, `Speaks` says that it changes
its own connection only, and `MoveKeeps` and `LateKeeps` what then remains to be shown.
For the steps of the broker, `BrokerSays` sorts them once more, by what they tell
whom (`SaysNothing`, `SaysPlain`, `SaysPublished`, `SaysCreate`, `SaysAttach`), and one
lemma each shows that everybody's part of the invariant is kept.

The refinement of `AheSharing` needs one more fact, since the abstract memories are
numbered up to `2 * Cardinality(Conns)`: the broker makes two memfds at most once for
each process. `MadeInv` counts them against the processes whose ACQUIRE was read or
lost (`Spent`); that set only grows, and grows whenever memory is made. A reply that is
mapped is then `MapFresh` (`NobodyMaps`) or `MapBuilt`; `ahe_startup_complete` is
`Complete`, taking and releasing the lock are `Lock` and `Unlock`, detaching and dying are
`Unmap`, and everything else, all of the broker included, is a stutter (`StepShares`).

### The abstract specifications: `GenerationInv`, `SharingInv`

`GenerationInv` adds to `HoldersAgree` that the owner
alone holds memory under construction and that all who attached to the published
memory did so at its present place. `SharingInv` adds `BuiltAlike` to the types and
`SharedAlike`: whoever maps a completed memory maps it at the address and with the key it
was completed with, and a memory is completed once. Without it, an attaching process could
meet its creator, who alone knows the address, at a different one.

### One process: `ProviderInv` and `LoaderInv`

`ProviderInv` ties the client's fields to what the process really has: the descriptors it
names are the ones that are open, a mapping it names is mapped (the converse fails after a
failed `munmap()`), and a block is freed twice only if both faults are possible
(`FieldsTrue`); what is live at each place of the allocation (`AllocationAt`); that the
reply being worked on passed the client's checks (`ResponseChecked`); what is in use while
OPcache is active (`InUse`); and the count of startups begun and reported (`Reports`). Its
lemmas state the effect of each client function on each field once (`FreeOwn`, `UnmapOwn`,
`CloseOwn`, `ShutdownOwn`).

`LoaderInv` adds that the provider is not asked before the post-startup, that a
registered extension with a handle is still waiting for its own startup, where it gives
the handle up (`Callbacks`), that what `ahe_startup` checked stays true (`Checked`), and
that memory is mapped only at addresses that are not randomised. Since every step of the
process is one of the provider or none of its business (`LoaderProvider`), the provider's
theorems carry over.

### Brokers on one path: `PathInv`

One broker is alive at a time and only a serving one accepts (`OneAlive`); what a
broker has learnt of the path and the directory still holds when it acts on it
(`PathKnown`), which is exactly what fails when brokers overlap.

### The cache key: `Inv` and induction

`Inv` of `AheCacheKey_proofs` says that no name is registered twice and that a key is what
was printed from a process's directives and fields, which do not change afterwards. What
is left is a fact about data (`KeysEqual`): two printed keys are equal exactly when
configurations and fields are.

* *Induction.* The library's induction theorems take a predicate as a parameter, which
  the provers here cannot instantiate. `SetInduction` says the same of a *set* of numbers
  and is proved from the cardinality of finite sets: if `n` were missing from a set with 0
  that is closed under successor, `k |-> k + 1` would map its part below `n` one-to-one into
  that part without 0. `Least` (a least element) and `Recursion` (a function that starts
  with a value and goes on by given steps exists) follow; the latter gives the recursive
  functions of `Selected` and `DigestBytes` their equations.
* *Selection and order.* `SelectedResult`: exactly the `opcache.*` directives are kept.
  `StrLess` is a strict total order (the least byte that differs decides), so any list of
  differently named entries can be sorted, by insertion (`SortExists`), and in one way
  only: the first entry in which two sorted lists differed would be missing from one
  of them (`SortedAgree`, `SortedUnique`).
* *Framing.* The length in front of a field says where it ends (`FieldSplits`), so the
  bytes of a list can be read back from the front, entry by entry, to its end
  (`DigestInjective`).
* *The line.* The namespace may contain anything, also text that looks like the rest of a
  key. The line is unambiguous all the same: the other fields and the digest contain no
  bar, so they are read off from the back (`LastPartSplits`), the user from the front
  (`FirstPartSplits`), and what is left is the namespace (`PrintedSplits`).

### Only model-checked

The liveness properties `QuotaEnds`, `RequestsServed`, `StartupEnds` and
`InitializationEnds`: fairness and `ENABLED` are beyond the prover.

## 5. Findings

1. **A signal can be lost** (`broker_signal`). `ahe_broker_stopping` is tested at
   `src/ahe_broker.c:593`, `poll()` at line 657 has neither a timeout nor a signal
   mask. A SIGTERM between them is noticed only at the next event on a socket.
   `nix/checks.nix:576` treats a broker that ignores SIGTERM as a failure.
2. **"Persistence was abandoned" may be untrue** (`system_abandoned`). A creator
   that times out on READY sends ABORT and warns
   (`src/abyssal_hyperglyph_engine.c:298`), but its READY is still queued, is
   accepted, and the ABORT that follows has no effect on a READY generation. The
   memory is published and complete, and sharing it is sound (`system_two`
   includes this case): only the message is wrong.
3. **Overlapping starts** (`path_overlap`). A socket that is bound and not yet
   listening looks stale to a second broker, which removes it; and a broker
   unlinks the path at exit without checking that the socket there is its own.
   One broker ends up serving where nobody can connect.
4. **A double free behind two failures** (`provider_both`). `ahe_broker_client_detach`
   returns early when `munmap()` fails and keeps its pointer to the segment block
   (`src/ahe_broker_client.c:531`), although, as its own comment at line 539 says, OPcache
   will free that block, and does so whatever detach returns. If the process was
   attaching and OPcache refused the reply because the globals do not fit behind
   the offset, the client's shutdown frees the block a second time. It takes a
   creator that published such an offset *and* a failing `munmap()`; each alone is
   harmless (`loader`).

## 6. Not modelled

* EINTR and EAGAIN of individual calls, which the code retries or treats like any
  other failure; saturation of `handled_clients` at `ULONG_MAX`; the growth
  of arrays, which either succeeds or takes the failure exit that is modelled.
* Option parsing.
* A `sendmsg()` of the broker that fails with an open peer and room in its buffer
  (ENOMEM, ETOOMANYREFS): to the code it is the same failure as a full buffer with
  an open peer, which is modelled (`CanSend`).
* In `AheSystem`, OPcache's refusal of a reply the client accepted. `AheProvider` has it;
  to the broker and the other processes it is a process that detaches or dies before
  it completed anything.
* On the client's side, how a malformed control message is picked apart: its
  descriptors are closed and the reply is refused (`NoReply`).
* OPcache's own structures, and what a process that dies inside the lock leaves
  in them; their code is not in the repository.
* A forked child that inherits the provider's socket and lock descriptor. To the
  broker it is one more user of a connection, and `AheBroker` allows any sequence
  of messages on a connection; what OPcache does in a forked child is its own code.
* Collisions of MD5, and a change of the environment between the ASLR check and the
  allocation other than by the loading sequence itself.
* Native shared memory of OPcache: `AheProvider` ends with the fallback to it.
* The second patch, packaging and scripts: compile-time switches, build and test
  code without state of their own.

## 7. Plan

Done: both abstract specifications, the broker, the system, the provider, the loader, the
cache key and the socket path as modules with runs; every safety property of the
passing runs as a theorem, both refinements included. Nothing of the plan is left.

A composition of `AheSystem` with `AheSocketPath` (processes of two broker lives) was
considered and left out: objects of different brokers are never equal, so nothing
that relates processes across them could be violated. A broker that dies under its
clients is part of `AheSystem`; its successor is not.
