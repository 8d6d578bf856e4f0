--------------------------- MODULE AheLoader_proofs --------------------------
(***************************************************************************)
(* A PHP process around its provider, for any configuration and any build: *)
(* the loader only takes the provider's steps, a registered provider stays *)
(* loaded, and memory is mapped only where addresses are stable.           *)
(***************************************************************************)
EXTENDS AheLoader, AheProvider_proofs

(* The provider is not asked before OPcache's post-startup.                *)
Asked == phase \in {"launch", "load", "startup", "post_startup"} =>
             at = "create"

Awaits(extension) == \E i \in 1 .. Len(to_start) : to_start[i] = extension

(* Until the extension has been started its handle stands for the library. *)
Callbacks ==
    /\ phase = "launch" => loaded = {}
    /\ phase \in {"launch", "load"} =>
          /\ ahe.registered => "AHE" \in loaded
          /\ "AHE" \in loaded => ahe.library /\ Awaits("AHE")
          /\ ~ahe.enabled
    /\ ahe.registered => ahe.library
    /\ phase = "startup" => (ahe.registered /\ ahe.handle => Awaits("AHE"))
    /\ phase \in {"post_startup", "php"} => ~(ahe.registered /\ ahe.handle)

(* What the startup of the extension checked stays true.                   *)
Checked ==
    /\ ahe.enabled => ahe_verify_aslr_contract
    /\ phase = "startup" /\ ahe.enabled /\ ahe_opcache_is_loaded =>
          ahe.registered
    /\ phase \in {"post_startup", "php"} /\ ahe.enabled => ahe.registered

(* The process has the broker's memory, or is about to map it.             *)
Shares == own.mapped \/ at \in {"exchange", "map"}

LoaderInv ==
    /\ ProviderInv
    /\ LoaderTypeOK
    /\ Asked
    /\ Callbacks
    /\ Checked
    /\ Shares => ~env.aslr

-----------------------------------------------------------------------------
(* Every step of the process is one of the provider, or none of its        *)
(* business.                                                               *)
LEMMA LoaderProviderStep ==
    [LoaderNext]_allVars => [Next]_providerVars
BY DEF LoaderNext, main, zend_register_extension, LoadingEnds, ahe_startup,
       accel_startup, ExtensionsStarted, zend_shared_alloc_startup,
       OtherMemory, Run, ahe_shutdown, PostShutdown, Next, allVars

(* The loader implements the provider's specification, so what holds for   *)
(* a provider on its own holds for one that PHP loads.                     *)
THEOREM LoaderProvider == LoaderSpec => Spec
<1>1. LoaderInit => Init
    BY DEF LoaderInit
<1> QED
    BY <1>1, LoaderProviderStep, PTL DEF LoaderSpec, Spec

(* Only connecting to the broker leads to its memory.                      *)
LEMMA SharesStep ==
    ASSUME ProviderInv, NotConfigured \/ ProviderStart \/ ProviderEnd
    PROVE  Shares' => Shares
<1> USE DEF ProviderInv, ProviderTypeOK, Shares
<1>1. CASE NotConfigured
    BY <1>1 DEF NotConfigured, Fails, Go
<1>2. CASE NoReply
    BY <1>2, CloseOwn DEF NoReply, Fails, Go
<1>3. CASE Reply
    BY <1>3 DEF Reply
<1>4. CASE MapCache
    BY <1>4 DEF MapCache
<1>5. CASE ahe_broker_allocate_segment
    BY <1>5 DEF ahe_broker_allocate_segment, AllocationAt, FieldsTrue,
       Fails, Go
<1>6. CASE zend_shared_alloc_provider_create_segments
    BY <1>6, FreeOwn DEF zend_shared_alloc_provider_create_segments, Go
<1>7. CASE zend_shared_alloc_try
    BY <1>7 DEF zend_shared_alloc_try, AllocationAt, FieldsTrue
<1>8. CASE FallBack
  <2>1. PICK unmaps \in Unmaps : own' = ahe_broker_client_shutdown(own, unmaps)
      BY <1>8 DEF FallBack
  <2>2. unmaps \in BOOLEAN
      BY UnmapResults
  <2>3. own'.mapped => own.mapped
      BY <2>1, <2>2, ShutdownOwn DEF FieldsTrue
  <2> QED
      BY <1>8, <2>3 DEF FallBack, Go
<1>9. CASE zend_shared_alloc_provider_startup_complete
    BY <1>9 DEF zend_shared_alloc_provider_startup_complete, Go, InUse,
       FieldsTrue, Unreported
<1>10. CASE zend_shared_alloc_provider_startup_aborted
    BY <1>10 DEF zend_shared_alloc_provider_startup_aborted, Go
<1>11. CASE zend_shared_alloc_lock
    BY <1>11 DEF zend_shared_alloc_lock, Go
<1>12. CASE zend_shared_alloc_unlock
    BY <1>12 DEF zend_shared_alloc_unlock, Go
<1>13. CASE zend_shared_alloc_shutdown
    BY <1>13 DEF zend_shared_alloc_shutdown, InUse, FieldsTrue
<1>14. CASE NativeShutdown
    BY <1>14 DEF NativeShutdown, Go
<1>15. CASE ExitAborted
    BY <1>15 DEF ExitAborted, Go
<1> QED
    BY <1>1, <1>2, <1>3, <1>4, <1>5, <1>6, <1>7, <1>8, <1>9, <1>10, <1>11,
       <1>12, <1>13, <1>14, <1>15 DEF ProviderStart, ProviderEnd

-----------------------------------------------------------------------------
(* PHP starts with nothing loaded.                                         *)
LEMMA LoaderInitInv == LoaderInit => LoaderInv
<1> SUFFICES ASSUME LoaderInit PROVE LoaderInv
    OBVIOUS
<1>1. ProviderInv
    BY ProviderInit DEF LoaderInit
<1>2. LoaderTypeOK
    BY <1>1, LoaderAssumption
       DEF LoaderInit, LoaderTypeOK, ProviderInv, Phases, Extensions
<1>3. Asked /\ Callbacks /\ Checked /\ (Shares => ~env.aslr)
    BY DEF LoaderInit, Init, Asked, Callbacks, Checked, Shares,
       AHE_BROKER_CLIENT_INITIALIZER
<1> QED
    BY <1>1, <1>2, <1>3 DEF LoaderInv

(* The extension that is loaded waits to be started, with those before it. *)
LEMMA AwaitsAppend ==
    ASSUME to_start \in Seq(Extensions), NEW e \in Extensions,
           to_start' = Append(to_start, e)
    PROVE  /\ to_start' \in Seq(Extensions)
           /\ Awaits(e)'
           /\ \A x \in Extensions : Awaits(x) => Awaits(x)'
<1>1. /\ to_start' \in Seq(Extensions)
      /\ Len(to_start) \in Nat /\ Len(to_start') = Len(to_start) + 1
      /\ to_start'[Len(to_start) + 1] = e
      /\ \A i \in 1 .. Len(to_start) : to_start'[i] = to_start[i]
    OBVIOUS
<1>2. Awaits(e)'
    BY <1>1 DEF Awaits
<1>3. \A x \in Extensions : Awaits(x) => Awaits(x)'
    BY <1>1 DEF Awaits
<1> QED
    BY <1>1, <1>2, <1>3

(* Those behind the extension that is started go on waiting.               *)
LEMMA AwaitsTail ==
    ASSUME to_start \in Seq(Extensions), to_start # <<>>,
           to_start' = Tail(to_start)
    PROVE  /\ to_start' \in Seq(Extensions)
           /\ \A x \in Extensions :
                 Awaits(x) /\ x # Head(to_start) => Awaits(x)'
<1>1. /\ to_start' \in Seq(Extensions)
      /\ Len(to_start) \in Nat \ {0} /\ Len(to_start') = Len(to_start) - 1
      /\ Head(to_start) = to_start[1]
      /\ \A i \in 1 .. Len(to_start) - 1 : to_start'[i] = to_start[i + 1]
    OBVIOUS
<1>2. ASSUME NEW x \in Extensions, Awaits(x), x # Head(to_start)
      PROVE  Awaits(x)'
  <2>1. PICK i \in 1 .. Len(to_start) : to_start[i] = x
      BY <1>2 DEF Awaits
  <2>2. i - 1 \in 1 .. Len(to_start) - 1 /\ (i - 1) + 1 = i
      BY <1>1, <1>2, <2>1
  <2> QED
      BY <1>1, <2>1, <2>2 DEF Awaits
<1> QED
    BY <1>1, <1>2

(* Every step keeps the loader's invariant.                                *)
LEMMA LoaderStep == LoaderInv /\ [LoaderNext]_allVars => LoaderInv'
<1> SUFFICES ASSUME LoaderInv, [LoaderNext]_allVars
             PROVE  LoaderInv'
    OBVIOUS
<1>1. ProviderInv'
    BY LoaderProviderStep, ProviderStep DEF LoaderInv
<1>2. ProviderTypeOK'
    BY <1>1 DEF ProviderInv
<1>3. CASE main
  <2>1. LoaderTypeOK'
      BY <1>2, <1>3 DEF main, LoaderInv, LoaderTypeOK, Phases, Environment
  <2>2. Asked'
      BY <1>3 DEF main, LoaderInv, Asked, providerVars
  <2>3. Callbacks'
      BY <1>3 DEF main, LoaderInv, LoaderTypeOK, Callbacks, Awaits,
         Extensions
  <2>4. Checked'
      BY <1>3 DEF main, LoaderInv, LoaderTypeOK, Callbacks, Checked,
         Environment, ahe_verify_aslr_contract, ahe_opcache_is_loaded
  <2>5. Shares' => ~env'.aslr
      BY <1>3 DEF main, LoaderInv, Asked, Shares, ProviderInv, AllocationAt,
         providerVars
  <2> QED
      BY <1>1, <2>1, <2>2, <2>3, <2>4, <2>5 DEF LoaderInv
<1>4. CASE zend_register_extension
  <2>0. /\ to_load \in Seq(Extensions) /\ to_load # <<>>
        /\ Head(to_load) \in Extensions /\ Tail(to_load) \in Seq(Extensions)
        /\ to_start' \in Seq(Extensions)
        /\ Head(to_load) = "AHE" => Awaits("AHE")'
        /\ \A x \in Extensions : Awaits(x) => Awaits(x)'
    <3>1. /\ to_load \in Seq(Extensions) /\ to_load # <<>>
          /\ to_start \in Seq(Extensions)
          /\ to_start' = Append(to_start, Head(to_load))
        BY <1>4 DEF zend_register_extension, LoaderInv, LoaderTypeOK
    <3>2. /\ Head(to_load) \in Extensions
          /\ Tail(to_load) \in Seq(Extensions)
        BY <3>1
    <3> DEFINE e == Head(to_load)
    <3>3. e \in Extensions /\ to_start' = Append(to_start, e)
        BY <3>1, <3>2
    <3> HIDE DEF e
    <3>4. /\ to_start' \in Seq(Extensions)
          /\ \E i \in 1 .. Len(to_start') : to_start'[i] = e
          /\ \A x \in Extensions : Awaits(x) => Awaits(x)'
        BY <3>1, <3>3, AwaitsAppend DEF Awaits
    <3> QED
        BY <3>1, <3>2, <3>4 DEF e, Awaits
  <2>1. LoaderTypeOK'
      BY <1>2, <1>4, <2>0 DEF zend_register_extension, ahe_message_handler,
         LoaderInv, LoaderTypeOK, Phases, Environment
  <2>2. Asked'
      BY <1>4 DEF zend_register_extension, ahe_message_handler, LoaderInv,
         Asked, providerVars
  <2>3. Callbacks'
      BY <1>4, <2>0 DEF zend_register_extension, ahe_message_handler,
         LoaderInv, LoaderTypeOK, Callbacks, Extensions
  <2>4. Checked'
      BY <1>4 DEF zend_register_extension, ahe_message_handler, LoaderInv,
         LoaderTypeOK, Callbacks, Checked, Environment,
         ahe_verify_aslr_contract, ahe_opcache_is_loaded
  <2>5. Shares' => ~env'.aslr
      BY <1>4 DEF zend_register_extension, LoaderInv, Shares, providerVars
  <2> QED
      BY <1>1, <2>1, <2>2, <2>3, <2>4, <2>5 DEF LoaderInv
<1>5. CASE LoadingEnds
  <2>1. LoaderTypeOK'
      BY <1>2, <1>5 DEF LoadingEnds, LoaderInv, LoaderTypeOK, Phases,
         Environment
  <2>2. Asked'
      BY <1>5 DEF LoadingEnds, LoaderInv, Asked, providerVars
  <2>3. Callbacks'
      BY <1>5 DEF LoadingEnds, LoaderInv, LoaderTypeOK, Callbacks, Awaits,
         Extensions
  <2>4. Checked'
      BY <1>5 DEF LoadingEnds, LoaderInv, LoaderTypeOK, Callbacks, Checked,
         Environment, ahe_verify_aslr_contract, ahe_opcache_is_loaded
  <2>5. Shares' => ~env'.aslr
      BY <1>5 DEF LoadingEnds, LoaderInv, Shares, providerVars
  <2> QED
      BY <1>1, <2>1, <2>2, <2>3, <2>4, <2>5 DEF LoaderInv
<1>6. CASE ahe_startup
  <2>0. /\ to_start' \in Seq(Extensions)
        /\ \A x \in Extensions :
              Awaits(x) /\ x # Head(to_start) => Awaits(x)'
      BY <1>6, AwaitsTail DEF ahe_startup, LoaderInv, LoaderTypeOK
  <2>1. LoaderTypeOK'
      BY <1>2, <1>6, <2>0 DEF ahe_startup, Unregistered, HandleAfterStartup,
         ahe_opcache_is_loaded, ahe_verify_aslr_contract, LoaderInv,
         LoaderTypeOK, Phases, Environment
  <2>2. Asked'
      BY <1>6 DEF ahe_startup, Unregistered, HandleAfterStartup,
         ahe_opcache_is_loaded, ahe_verify_aslr_contract, LoaderInv, Asked,
         providerVars
  <2>3. Callbacks'
      BY <1>6, <2>0 DEF ahe_startup, Unregistered, HandleAfterStartup,
         ahe_opcache_is_loaded, ahe_verify_aslr_contract, LoaderInv,
         LoaderTypeOK, Callbacks, Extensions
  <2>4. Checked'
      BY <1>6 DEF ahe_startup, Unregistered, HandleAfterStartup,
         ahe_opcache_is_loaded, ahe_verify_aslr_contract, LoaderInv,
         LoaderTypeOK, Callbacks, Checked, Environment,
         ahe_verify_aslr_contract, ahe_opcache_is_loaded
  <2>5. Shares' => ~env'.aslr
      BY <1>6 DEF ahe_startup, LoaderInv, Shares, providerVars
  <2> QED
      BY <1>1, <2>1, <2>2, <2>3, <2>4, <2>5 DEF LoaderInv
<1>7. CASE accel_startup
  <2>0. /\ to_start' \in Seq(Extensions)
        /\ \A x \in Extensions :
              Awaits(x) /\ x # Head(to_start) => Awaits(x)'
      BY <1>7, AwaitsTail DEF accel_startup, LoaderInv, LoaderTypeOK
  <2>1. LoaderTypeOK'
      BY <1>2, <1>7, <2>0 DEF accel_startup, LoaderInv, LoaderTypeOK,
         Phases, Environment
  <2>2. Asked'
      BY <1>7 DEF accel_startup, LoaderInv, Asked, providerVars
  <2>3. Callbacks'
      BY <1>7, <2>0 DEF accel_startup, LoaderInv, LoaderTypeOK, Callbacks,
         Extensions
  <2>4. Checked'
      BY <1>7 DEF accel_startup, LoaderInv, LoaderTypeOK, Callbacks,
         Checked, Environment, ahe_verify_aslr_contract,
         ahe_opcache_is_loaded
  <2>5. Shares' => ~env'.aslr
      BY <1>7 DEF accel_startup, LoaderInv, Shares, providerVars
  <2> QED
      BY <1>1, <2>1, <2>2, <2>3, <2>4, <2>5 DEF LoaderInv
<1>8. CASE ExtensionsStarted
  <2>1. LoaderTypeOK'
      BY <1>2, <1>8 DEF ExtensionsStarted, LoaderInv, LoaderTypeOK, Phases,
         Environment
  <2>2. Asked'
      BY <1>8 DEF ExtensionsStarted, LoaderInv, Asked, providerVars
  <2>3. Callbacks'
      BY <1>8 DEF ExtensionsStarted, LoaderInv, LoaderTypeOK, Callbacks,
         Awaits, Extensions
  <2>4. Checked'
      BY <1>8 DEF ExtensionsStarted, LoaderInv, LoaderTypeOK, Callbacks,
         Checked, Environment, ahe_verify_aslr_contract,
         ahe_opcache_is_loaded
  <2>5. Shares' => ~env'.aslr
      BY <1>8 DEF ExtensionsStarted, LoaderInv, Shares, providerVars
  <2> QED
      BY <1>1, <2>1, <2>2, <2>3, <2>4, <2>5 DEF LoaderInv
<1>9. CASE zend_shared_alloc_startup
  <2>1. LoaderTypeOK'
      BY <1>2, <1>9 DEF zend_shared_alloc_startup, LoaderInv, LoaderTypeOK,
         Phases, Environment
  <2>2. Asked'
      BY <1>9 DEF zend_shared_alloc_startup, LoaderInv, Asked, providerVars
  <2>3. Callbacks'
      BY <1>9 DEF zend_shared_alloc_startup, LoaderInv, LoaderTypeOK,
         Callbacks, Awaits, Extensions
  <2>4. Checked'
      BY <1>9 DEF zend_shared_alloc_startup, LoaderInv, LoaderTypeOK,
         Callbacks, Checked, Environment, ahe_verify_aslr_contract,
         ahe_opcache_is_loaded
  <2>5. Shares' => ~env'.aslr
      BY <1>9, SharesStep DEF zend_shared_alloc_startup, LoaderInv,
         Configured, Checked, ahe_verify_aslr_contract
  <2> QED
      BY <1>1, <2>1, <2>2, <2>3, <2>4, <2>5 DEF LoaderInv
<1>10. CASE OtherMemory
  <2>1. LoaderTypeOK'
      BY <1>2, <1>10 DEF OtherMemory, LoaderInv, LoaderTypeOK, Phases,
         Environment
  <2>2. Asked'
      BY <1>10 DEF OtherMemory, LoaderInv, Asked, providerVars
  <2>3. Callbacks'
      BY <1>10 DEF OtherMemory, LoaderInv, LoaderTypeOK, Callbacks, Awaits,
         Extensions
  <2>4. Checked'
      BY <1>10 DEF OtherMemory, LoaderInv, LoaderTypeOK, Callbacks, Checked,
         Environment, ahe_verify_aslr_contract, ahe_opcache_is_loaded
  <2>5. Shares' => ~env'.aslr
      BY <1>10 DEF OtherMemory, LoaderInv, Shares, providerVars
  <2> QED
      BY <1>1, <2>1, <2>2, <2>3, <2>4, <2>5 DEF LoaderInv
<1>11. CASE Run
  <2>1. LoaderTypeOK'
      BY <1>2, <1>11 DEF Run, LoaderInv, LoaderTypeOK, Phases, Environment
  <2>2. Asked'
      BY <1>11 DEF Run, LoaderInv, Asked, providerVars
  <2>3. Callbacks'
      BY <1>11 DEF Run, LoaderInv, LoaderTypeOK, Callbacks, Awaits,
         Extensions
  <2>4. Checked'
      BY <1>11 DEF Run, LoaderInv, LoaderTypeOK, Callbacks, Checked,
         Environment, ahe_verify_aslr_contract, ahe_opcache_is_loaded
  <2>5. Shares' => ~env'.aslr
      BY <1>11, SharesStep DEF Run, LoaderInv
  <2> QED
      BY <1>1, <2>1, <2>2, <2>3, <2>4, <2>5 DEF LoaderInv
<1>12. CASE ahe_shutdown
  <2>1. LoaderTypeOK'
      BY <1>2, <1>12 DEF ahe_shutdown, LoaderInv, LoaderTypeOK, Phases,
         Environment
  <2>2. Asked'
      BY <1>12 DEF ahe_shutdown, LoaderInv, Asked, providerVars
  <2>3. Callbacks'
      BY <1>12 DEF ahe_shutdown, LoaderInv, LoaderTypeOK, Callbacks, Awaits,
         Extensions
  <2>4. Checked'
      BY <1>12 DEF ahe_shutdown, LoaderInv, LoaderTypeOK, Callbacks,
         Checked, Environment, ahe_verify_aslr_contract,
         ahe_opcache_is_loaded
  <2>5. Shares' => ~env'.aslr
      BY <1>12 DEF ahe_shutdown, LoaderInv, Shares, providerVars
  <2> QED
      BY <1>1, <2>1, <2>2, <2>3, <2>4, <2>5 DEF LoaderInv
<1>13. CASE PostShutdown
  <2>1. LoaderTypeOK'
      BY <1>2, <1>13 DEF PostShutdown, LoaderInv, LoaderTypeOK, Phases,
         Environment
  <2>2. Asked'
      BY <1>13 DEF PostShutdown, LoaderInv, Asked, providerVars
  <2>3. Callbacks'
      BY <1>13 DEF PostShutdown, LoaderInv, LoaderTypeOK, Callbacks, Awaits,
         Extensions
  <2>4. Checked'
      BY <1>13 DEF PostShutdown, LoaderInv, LoaderTypeOK, Callbacks,
         Checked, Environment, ahe_verify_aslr_contract,
         ahe_opcache_is_loaded
  <2>5. Shares' => ~env'.aslr
      BY <1>13, SharesStep DEF PostShutdown, LoaderInv
  <2> QED
      BY <1>1, <2>1, <2>2, <2>3, <2>4, <2>5 DEF LoaderInv
<1>14. CASE UNCHANGED allVars
    BY <1>1, <1>14 DEF allVars, loaderVars, providerVars, LoaderInv,
       LoaderTypeOK, ProviderTypeOK, Asked, Callbacks, Awaits, Checked, Shares,
       ahe_verify_aslr_contract, ahe_opcache_is_loaded
<1> QED
    BY <1>3, <1>4, <1>5, <1>6, <1>7, <1>8, <1>9, <1>10, <1>11, <1>12, <1>13,
       <1>14 DEF LoaderNext

(* The loader's invariant, with any combination of the faults.             *)
THEOREM LoaderInvariant == LoaderSpec => []LoaderInv
<1>1. LoaderInv /\ [LoaderNext]_allVars => LoaderInv'
    BY LoaderStep
<1> QED
    BY <1>1, LoaderInitInv, PTL DEF LoaderSpec

-----------------------------------------------------------------------------
(* Type correctness of the process and of the provider in it.              *)
THEOREM LoaderTypes == LoaderSpec => []LoaderTypeOK
<1>1. LoaderInv => LoaderTypeOK
    BY DEF LoaderInv
<1> QED
    BY <1>1, LoaderInvariant, PTL

(* The library of a provider that OPcache accepted is never unloaded: its  *)
(* own startup gives the handle up, whether or not it succeeds.            *)
THEOREM CallbacksStay == LoaderSpec => []CallbacksLoaded
<1>1. LoaderInv => CallbacksLoaded
    BY DEF LoaderInv, Callbacks, CallbacksLoaded
<1> QED
    BY <1>1, LoaderInvariant, PTL

(* No process whose addresses are randomised maps the shared memory.       *)
THEOREM StableAddresses == LoaderSpec => []SharedOnlyStable
<1>1. LoaderInv => SharedOnlyStable
    BY DEF LoaderInv, Shares, SharedOnlyStable
<1> QED
    BY <1>1, LoaderInvariant, PTL

(* An extension that stays enabled next to an OPcache is its provider.     *)
THEOREM EnabledProvides == LoaderSpec => []EnabledRegistered
<1>1. LoaderInv => EnabledRegistered
    BY DEF LoaderInv, Checked, EnabledRegistered
<1> QED
    BY <1>1, LoaderInvariant, PTL

(* The provider's properties, for a provider in a PHP process.             *)
THEOREM LoadedProviderSafe ==
    LoaderSpec =>
        [](NothingLeft /\ RestoredInside /\ LockFileOpen /\ StartupReported)
BY LoaderProvider, AllGivenBack, GlobalsInside, LockFileKept,
   StartupEndsOnce, PTL

(* Nothing is given back twice in a PHP process, with at most one of the   *)
(* rarer faults.                                                           *)
THEOREM LoadedGivenBackOnce == OneFaultOnly /\ LoaderSpec => []ReleasedOnce
BY LoaderProvider, GivenBackOnce, PTL

=============================================================================
