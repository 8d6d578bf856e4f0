------------------------------ MODULE AheLoader ------------------------------
(***************************************************************************)
(* A PHP process from its launcher to its last callback: src/ahe_php.c,    *)
(* the Zend extension entry of src/abyssal_hyperglyph_engine.c, and the    *)
(* registration function of patches/php/8.4/0001, around AheProvider.      *)
(*                                                                         *)
(* Zend loads the extensions in the order of the configuration and tells   *)
(* those already loaded of each new one; it starts them in that order,     *)
(* removes and unloads one whose startup fails, and unloads the rest       *)
(* before OPcache's post-shutdown callback runs.  An extension without a   *)
(* handle is never unloaded.                                               *)
(***************************************************************************)
EXTENDS AheProvider, Sequences

CONSTANTS Orders   \* the zend_extension lines of the configuration

ASSUME LoaderAssumption == Orders \subseteq Seq({"AHE", "OPcache"})

VARIABLES
    phase,      \* where PHP is
    env,        \* the process's environment and personality
    build,      \* how OPcache was built
    to_load,    \* extensions still to be loaded
    loaded,     \* the extensions in the list zend_extensions
    to_start,   \* those that were loaded and not yet started, in order
    ahe         \* the extension's static variables, handle and library

loaderVars == <<phase, env, build, to_load, loaded, to_start, ahe>>
allVars == <<loaderVars, providerVars>>

Phases ==
    {"launch", "load", "startup", "post_startup", "php", "post_shutdown",
     "done"}

Extensions == {"AHE", "OPcache"}

(* aslr: addresses are randomised, the absence of ADDR_NO_RANDOMIZE.       *)
Environment == [aslr : BOOLEAN, expects : BOOLEAN, socket : BOOLEAN]

(* handle: a shared object; symbol: it has the registration function;      *)
(* abi: of the same version and layout; vacant: nobody else registered.    *)
Build == [handle : BOOLEAN, symbol : BOOLEAN, abi : BOOLEAN, vacant : BOOLEAN]

(* The types of the loader's state, besides the provider's.                *)
LoaderTypeOK ==
    /\ ProviderTypeOK
    /\ phase \in Phases
    /\ env \in Environment /\ build \in Build
    /\ to_load \in Seq(Extensions) /\ to_start \in Seq(Extensions)
    /\ loaded \subseteq Extensions
    /\ ahe \in [seen : BOOLEAN, registered : BOOLEAN, enabled : BOOLEAN,
                handle : BOOLEAN, library : BOOLEAN]

(* PHP is started by ahe-php, by hand, or by a PHP process that was.       *)
LoaderInit ==
    /\ Init
    /\ phase \in {"launch", "load"}
    /\ env \in Environment
    /\ build \in Build
    /\ to_load \in Orders
    /\ loaded = {} /\ to_start = <<>>
    /\ ahe = [seen |-> FALSE, registered |-> FALSE, enabled |-> FALSE,
              handle |-> FALSE, library |-> FALSE]

-----------------------------------------------------------------------------
(* ahe-php: a call that fails ends it, and exec() keeps the personality    *)
(* unless the PHP binary is set-user-ID.                                   *)
main ==
    /\ phase = "launch"
    /\ \/ phase' = "done" /\ UNCHANGED env
       \/ /\ phase' = "load"
          /\ \E cleared \in BOOLEAN :
                env' = [env EXCEPT !.aslr = cleared, !.expects = TRUE]
    /\ UNCHANGED <<build, to_load, loaded, to_start, ahe, providerVars>>

zend_opcache_register_shared_memory_provider_v2 ==
    build.vacant /\ build.abi

(* OPcache was loaded after AHE.                                           *)
ahe_message_handler ==
    ahe' = [ahe EXCEPT
        !.seen = TRUE,
        !.registered = @ \/ /\ build.handle /\ build.symbol
                            /\ zend_opcache_register_shared_memory_provider_v2]

zend_register_extension ==
    /\ phase = "load"
    /\ to_load # <<>>
    /\ \/ /\ Head(to_load) = "AHE"
          /\ ahe' = [ahe EXCEPT !.handle = TRUE, !.library = TRUE]
       \/ /\ Head(to_load) = "OPcache"
          /\ IF "AHE" \in loaded THEN ahe_message_handler
                                 ELSE UNCHANGED ahe
    /\ loaded' = loaded \cup {Head(to_load)}
    /\ to_start' = Append(to_start, Head(to_load))
    /\ to_load' = Tail(to_load)
    /\ UNCHANGED <<phase, env, build, providerVars>>

LoadingEnds ==
    /\ phase = "load"
    /\ to_load = <<>>
    /\ phase' = "startup"
    /\ UNCHANGED <<env, build, to_load, loaded, to_start, ahe, providerVars>>

-----------------------------------------------------------------------------
(* zend_startup_extensions.                                                *)

ahe_opcache_is_loaded == "OPcache" \in loaded

(* Faulty variant: only the launcher's own variable is looked at.          *)
VerifyLaunched == env.expects => ~env.aslr

ahe_verify_aslr_contract == env.expects \/ env.socket => ~env.aslr

(* Faulty variant: an OPcache loaded before AHE is not noticed.            *)
SeenUnregistered == ahe.seen /\ ~ahe.registered

Unregistered == (ahe.seen \/ ahe_opcache_is_loaded) /\ ~ahe.registered

(* Faulty variant: the handle is given up only when startup succeeds.      *)
HandleAtEnd ==
    ahe.handle /\ ~(ahe.registered /\ ahe_verify_aslr_contract)

(* "OPcache keeps provider callback addresses through post-shutdown."      *)
HandleAfterStartup == ahe.handle /\ ~ahe.registered

(* A failure removes the extension and unloads it by its handle.           *)
ahe_startup ==
    /\ phase = "startup"
    /\ to_start # <<>> /\ Head(to_start) = "AHE"
    /\ to_start' = Tail(to_start)
    /\ LET ok == ~Unregistered /\ ahe_verify_aslr_contract
       IN  /\ ahe' = [ahe EXCEPT
                        !.enabled = ok,
                        !.handle = HandleAfterStartup,
                        !.library = ok \/ ~HandleAfterStartup]
           /\ loaded' = IF ok THEN loaded ELSE loaded \ {"AHE"}
    /\ UNCHANGED <<phase, env, build, to_load, providerVars>>

(* OPcache may refuse to start, too: then it is gone.                      *)
accel_startup ==
    /\ phase = "startup"
    /\ to_start # <<>> /\ Head(to_start) = "OPcache"
    /\ to_start' = Tail(to_start)
    /\ loaded' \in {loaded, loaded \ {"OPcache"}}
    /\ UNCHANGED <<phase, env, build, to_load, ahe, providerVars>>

ExtensionsStarted ==
    /\ phase = "startup"
    /\ to_start = <<>>
    /\ phase' = IF ahe_opcache_is_loaded THEN "post_startup" ELSE "done"
    /\ UNCHANGED <<env, build, to_load, loaded, to_start, ahe, providerVars>>

-----------------------------------------------------------------------------
(* accel_post_startup and the request: AheProvider.                        *)

(* The first checks of ahe_create_segments; the others may fail as well.   *)
Configured == ahe.enabled /\ env.socket

zend_shared_alloc_startup ==
    /\ phase = "post_startup"
    /\ ahe.registered
    /\ NotConfigured \/ (Configured /\ ahe_broker_connect)
    /\ phase' = "php"
    /\ UNCHANGED <<env, build, to_load, loaded, to_start, ahe>>

(* No provider of ours: OPcache never calls into the library.              *)
OtherMemory ==
    /\ phase = "post_startup"
    /\ ~ahe.registered
    /\ phase' = "done"
    /\ UNCHANGED <<env, build, to_load, loaded, to_start, ahe, providerVars>>

Run ==
    /\ phase = "php"
    /\ ProviderStart
    /\ phase' = IF at' = "exited" THEN "done" ELSE "php"
    /\ UNCHANGED <<env, build, to_load, loaded, to_start, ahe>>

(* zend_shutdown_extensions, then zend_post_shutdown_cb.                   *)
ahe_shutdown ==
    /\ phase = "php"
    /\ at \in {"native", "starting", "running", "aborted"}
    /\ phase' = "post_shutdown"
    /\ loaded' = {}
    /\ ahe' = [ahe EXCEPT !.library = @ /\ ~ahe.handle]
    /\ UNCHANGED <<env, build, to_load, to_start, providerVars>>

PostShutdown ==
    /\ phase = "post_shutdown"
    /\ ProviderEnd
    /\ phase' = "done"
    /\ UNCHANGED <<env, build, to_load, loaded, to_start, ahe>>

LoaderNext ==
    \/ main \/ zend_register_extension \/ LoadingEnds
    \/ ahe_startup \/ accel_startup \/ ExtensionsStarted
    \/ zend_shared_alloc_startup \/ OtherMemory \/ Run
    \/ ahe_shutdown \/ PostShutdown

LoaderSpec == LoaderInit /\ [][LoaderNext]_allVars

-----------------------------------------------------------------------------
(* "Once OPcache accepts a provider, the provider's shared object must     *)
(* remain loaded until OPcache has finished its post-shutdown callbacks.", *)
(* also when the extension's own startup fails after the registration.     *)
CallbacksLoaded == ahe.registered => ahe.library

(* "Participants must be launched with ASLR disabled before PHP is         *)
(* mapped": a process maps shared memory only when its addresses are       *)
(* stable, however it was launched.  The personality is checked when the   *)
(* extension starts, the socket is read when OPcache allocates.            *)
SharedOnlyStable == own.mapped => ~env.aslr

(* "Zend OPcache does not expose the shared-memory provider ABI": an       *)
(* enabled extension next to an OPcache is the provider of that OPcache.   *)
(* It never runs without effect, in whatever order the two were loaded.    *)
EnabledRegistered ==
    ahe.enabled /\ phase \in {"post_startup", "php"} => ahe.registered

=============================================================================
