------------------------------- MODULE MCLoader ------------------------------
(* PHP processes with every configuration of the two extensions, and at    *)
(* most one of the rarer faults, for TLC.                                  *)
EXTENDS AheLoader

AllOrders ==
    {<<"AHE", "OPcache">>, <<"OPcache", "AHE">>, <<"AHE">>, <<"OPcache">>}

OneFault == {{}, {"munmap"}, {"offset"}}

=============================================================================
